---- MODULE Spec2Model ----
(***************************************************************************)
(* Model of plugins/3MFReader/ThreeMFWorkspaceReader.py: the inspection    *)
(* pass (preRead), the identity remapper (getNewId) and the write pass     *)
(* (read) of the 3MF project import, run against a container registry.     *)
(***************************************************************************)
EXTENDS Integers, Sequences, FiniteSets, TLC

VARIABLES
    bundle,             \* the project archive: the "Cura/" entries by category
    registry,           \* ContainerRegistry: id -> container record
    resolve_strategies, \* self._resolve_strategies
    id_mapping,         \* self._id_mapping: old id -> new id
    report,             \* what preRead last handed to the dialog
    pc,                 \* position of the caller in preRead / read
    rd,                 \* the local variables of read() while it runs
    registry0,          \* the registry as it was when read() was entered
    id_log,             \* old id -> the getNewId calls and the uniqueName calls
                        \* made for it since _id_mapping was last emptied
    dialog_result,      \* the result the dialog gave to the running inspection
    inspections         \* the reports handed to the dialog since the last read()

vars == <<bundle, registry, resolve_strategies, id_mapping, report, pc, rd,
          registry0, id_log, dialog_result, inspections>>

\* ------------------------------------------------------------ values

\* Python's None.
None == "None"

\* The id of the registry's empty container.
EmptyId == "empty"

\* machine_extruder_count = None (line 447); a count n is <<n>>.
NoCount == <<>>

\* A stack file with this many container ids is in the old layout (line 1099).
LegacySlotCount == 6

\* Index at which the old layout lacks the definition_changes slot (line 1101).
LegacyInsertIndex == 5

\* A container of the registry, or one deserialized from the archive.
Container(cls, type, id, name, content) ==
    [cls |-> cls, type |-> type, id |-> id, name |-> name, content |-> content,
     nsettings |-> 0, readOnly |-> FALSE, dirty |-> FALSE,
     containers |-> <<>>, extruders |-> {},
     machine |-> None, extruder |-> None, position |-> None,
     authId |-> None, authKey |-> None]

\* The keys preRead resets the strategies to (line 137).
resolve_strategy_keys == {"machine", "material", "quality_changes"}

\* self._ignored_instance_container_types (line 58).
ignored_instance_container_types == {"quality", "variant"}

\* self._old_empty_profile_id_dict (line 65), applied as dict.get(id, id).
OldEmptyMapped(id) ==
    IF id \in {"empty_material", "empty_variant"} THEN EmptyId ELSE id

\* ------------------------------------------------------------ registry

Ids(reg) == DOMAIN reg

\* findContainersMetadata(id = ...): any class.
Found(reg, id) == id \in DOMAIN reg

\* findDefinitionContainersMetadata(id = ...).
FoundDefinition(reg, id) == id \in DOMAIN reg /\ reg[id].cls = "definition"

\* findInstanceContainers(id = ...): materials are instance containers too.
FoundInstance(reg, id) == id \in DOMAIN reg /\ reg[id].cls = "instance"

\* findContainerStacks(id = ...).
FoundStack(reg, id) == id \in DOMAIN reg /\ reg[id].cls = "stack"

\* ContainerRegistry.isReadOnly(id).
IsReadOnly(reg, id) == id \in DOMAIN reg /\ reg[id].readOnly

\* ContainerRegistry.addContainer: a container whose id is taken is not added.
AddContainer(reg, c) ==
    IF c.id \in DOMAIN reg THEN reg ELSE (c.id :> c) @@ reg

\* ContainerRegistry.removeContainer(id): an unknown id is only logged.
RemoveContainer(reg, id) == [i \in DOMAIN reg \ {id} |-> reg[i]]

\* The data of an instance container that InstanceContainer.__eq__ compares.
InstanceData(c) == <<c.type, c.name, c.content, c.nsettings, c.machine, c.extruder>>

\* global_stack.extruders: position -> extruder stack id.
HasExtruderAt(stack, position) == \E e \in stack.extruders : e[1] = position

ExtruderAt(stack, position) ==
    (CHOOSE e \in stack.extruders : e[1] = position)[2]

\* ------------------------------------------------------------ archive

\* The instance container a bundle entry deserializes to.
InstanceOf(f) ==
    [Container("instance", f.type, f.id, f.name, f.content) EXCEPT
        !.nsettings = f.nsettings, !.machine = f.machine, !.extruder = f.extruder]

\* A reader of the ids that puts "empty" after the ids of the old layout.
getContainerIdListAppended(f) ==
    LET container_ids ==
            IF f.fmt = "section" THEN f.containers
            ELSE IF f.fmt = "general" THEN SelectSeq(f.containers, LAMBDA c : c # "")
            ELSE <<>>
    IN  IF Len(container_ids) = LegacySlotCount
        THEN Append(container_ids, EmptyId)
        ELSE container_ids

\* _getContainerIdListFromSerialized: the ids of a serialized stack, the old
\* 6-slot layout upgraded by inserting "empty" at index 5.
getContainerIdListFromSerialized(f) ==
    LET container_ids ==
            IF f.fmt = "section" THEN f.containers
            ELSE IF f.fmt = "general" THEN SelectSeq(f.containers, LAMBDA c : c # "")
            ELSE <<>>
    IN  IF Len(container_ids) = LegacySlotCount
        THEN SubSeq(container_ids, 1, LegacyInsertIndex) \o <<EmptyId>>
             \o SubSeq(container_ids, LegacyInsertIndex + 1, Len(container_ids))
        ELSE container_ids

\* _determineGlobalAndExtruderStackFiles: the files with the global / extruder
\* suffix, then the ".stack.cfg" files by their metadata type.
GlobalStackFiles(b) ==
    SelectSeq(b.stacks, LAMBDA f : f.suffix = "global")
    \o SelectSeq(b.stacks, LAMBDA f : f.suffix = "stack" /\ f.type = "machine")

ExtruderStackFiles(b) ==
    SelectSeq(b.stacks, LAMBDA f : f.suffix = "extruder")
    \o SelectSeq(b.stacks, LAMBDA f : f.suffix = "stack" /\ f.type = "extruder_train")

\* The RuntimeError of line 110.
StackFilesRaise(b) == Len(GlobalStackFiles(b)) # 1

GlobalStackFile(b) == GlobalStackFiles(b)[1]

\* ------------------------------------------------------------ preRead

\* The type preRead sees for a definition file: the registry's metadata when
\* the definition is known, else the deserialized file's (lines 149-159).
DefinitionTypeOf(reg, f) ==
    IF FoundDefinition(reg, f.id) THEN reg[f.id].type ELSE f.type

\* A count of the definition files of any type.
definition_container_count(b, reg) == Len(b.defs)

\* Lines 144-164: the definitions whose type is "machine".
machine_definition_container_count(b, reg) ==
    Len(SelectSeq(b.defs, LAMBDA f : DefinitionTypeOf(reg, f) = "machine"))

extruder_definition_container_count(b, reg) ==
    Len(SelectSeq(b.defs, LAMBDA f : DefinitionTypeOf(reg, f) = "extruder"))

\* Lines 147-175: a definition that fails to deserialize, or a number of
\* machine definitions other than one, raises.
DefinitionsRaise(b, reg) ==
    \/ \E i \in 1..Len(b.defs) : ~FoundDefinition(reg, b.defs[i].id) /\ b.defs[i].bad
    \/ machine_definition_container_count(b, reg) # 1

\* Lines 184-191.
MaterialFound(b, reg) == \E i \in 1..Len(b.mats) : Found(reg, b.mats[i].id)

\* A flag that a read-only material sets too.
material_conflict_any(b, reg) == MaterialFound(b, reg)

\* Lines 178-190: only a material that is not read-only can be in conflict.
material_conflict(b, reg) ==
    \E i \in 1..Len(b.mats) :
        Found(reg, b.mats[i].id) /\ ~IsReadOnly(reg, b.mats[i].id)

\* Line 208: every instance container file is deserialized.
InstancesRaise(b) == \E i \in 1..Len(b.insts) : b.insts[i].bad

\* Lines 213-233: a live instance container with the id of an imported
\* container of the type exists / exists and differs from it.
ChangesFound(b, reg, type) ==
    \E i \in 1..Len(b.insts) :
        b.insts[i].type = type /\ FoundInstance(reg, b.insts[i].id)

\* A conflict for every live container that has the id, equal or not.
ChangesConflictById(b, reg, type) == ChangesFound(b, reg, type)

\* Lines 217-222 and 227-233: the live container is compared with the
\* deserialized one.
ChangesConflict(b, reg, type) ==
    \E i \in 1..Len(b.insts) :
        /\ b.insts[i].type = type
        /\ FoundInstance(reg, b.insts[i].id)
        /\ InstanceData(reg[b.insts[i].id]) # InstanceData(InstanceOf(b.insts[i]))

\* A count that starts from the last report's instead of from zero.
NumSettingsCarried(insts, type) ==
    LET carried == IF "num_user_settings" \notin DOMAIN report THEN 0
                   ELSE IF type = "user" THEN report.num_user_settings
                   ELSE report.num_settings_overriden_by_quality_changes
        sum[i \in 0..Len(insts)] ==
            IF i = 0 THEN carried
            ELSE sum[i - 1] + (IF insts[i].type = type THEN insts[i].nsettings ELSE 0)
    IN  sum[Len(insts)]

\* The sum of len(instance_container._instances) over the files of a type.
RECURSIVE NumSettings(_, _)
NumSettings(insts, type) ==
    IF insts = <<>> THEN 0
    ELSE (IF Head(insts).type = type THEN Head(insts).nsettings ELSE 0)
         + NumSettings(Tail(insts), type)

\* A comparison that stops after the slot it starts at.
ScanSlotsFirstOnly(id_list, live, i) ==
    IF i > Len(id_list) THEN "match"
    ELSE IF i > Len(live) THEN "raise"
    ELSE IF live[i] # OldEmptyMapped(id_list[i]) THEN "conflict"
    ELSE "match"

\* Lines 263-268 and 298-303: the slots of a serialized stack against the live
\* stack's; getContainer raises for an index the live stack lacks.
RECURSIVE ScanSlots(_, _, _)
ScanSlots(id_list, live, i) ==
    IF i > Len(id_list) THEN "match"
    ELSE IF i > Len(live) THEN "raise"
    ELSE IF live[i] # OldEmptyMapped(id_list[i]) THEN "conflict"
    ELSE ScanSlots(id_list, live, i + 1)

\* Lines 257-268.
MachineScan(b, reg) ==
    IF FoundStack(reg, GlobalStackFile(b).id)
    THEN ScanSlots(getContainerIdListFromSerialized(GlobalStackFile(b)),
                   reg[GlobalStackFile(b).id].containers, 1)
    ELSE "match"

\* A scan in which a position the live machine lacks is an error.
RECURSIVE ScanExtrudersStrict(_, _, _, _)
ScanExtrudersStrict(files, reg, global_stack, conflict) ==
    IF files = <<>> THEN conflict
    ELSE LET f == Head(files) IN
         IF f.position = None \/ ~HasExtruderAt(global_stack, f.position) THEN "raise"
         ELSE LET r == ScanSlots(getContainerIdListFromSerialized(f),
                                 reg[ExtruderAt(global_stack, f.position)].containers, 1)
              IN  IF r = "raise" THEN "raise"
                  ELSE ScanExtrudersStrict(Tail(files), reg, global_stack,
                                           IF r = "conflict" THEN "conflict" ELSE conflict)

\* Lines 273-303: the extruder stack files in order, each against the live
\* extruder at its position; machine_conflict is carried from file to file.
RECURSIVE ScanExtruders(_, _, _, _)
ScanExtruders(files, reg, global_stack, conflict) ==
    IF files = <<>> THEN conflict
    ELSE LET f == Head(files) IN
         IF f.position = None THEN "raise"
         ELSE IF ~HasExtruderAt(global_stack, f.position) THEN "match"
         ELSE LET r == ScanSlots(getContainerIdListFromSerialized(f),
                                 reg[ExtruderAt(global_stack, f.position)].containers, 1)
              IN  IF r = "raise" THEN "raise"
                  ELSE ScanExtruders(Tail(files), reg, global_stack,
                                     IF r = "conflict" THEN "conflict" ELSE conflict)

\* Lines 249-303: "conflict", "match", or "raise".
StacksScan(b, reg) ==
    LET m == MachineScan(b, reg) IN
    IF FoundStack(reg, GlobalStackFile(b).id) /\ m = "match"
    THEN ScanExtruders(ExtruderStackFiles(b), reg, reg[GlobalStackFile(b).id], "match")
    ELSE m

\* containers_found_dict at the end of the inspection (lines 139, 188, 219,
\* 230, 260): the key definition_changes exists only once it was set.
containers_found_dict(b, reg) ==
    [k \in resolve_strategy_keys
          \cup (IF ChangesFound(b, reg, "definition_changes")
                THEN {"definition_changes"} ELSE {}) |->
        CASE k = "machine" -> FoundStack(reg, GlobalStackFile(b).id)
          [] k = "material" -> MaterialFound(b, reg)
          [] k = "quality_changes" -> ChangesFound(b, reg, "quality_changes")
          [] OTHER -> TRUE]

\* Whether the inspection raises (lines 172-175, 208, 109-110, 266, 283, 301).
InspectionRaises(b, reg) ==
    \/ DefinitionsRaise(b, reg)
    \/ InstancesRaise(b)
    \/ StackFilesRaise(b)
    \/ StacksScan(b, reg) = "raise"

\* What lines 336-352 hand to the dialog, with containers_found_dict.
ConflictReport(b, reg) ==
    [machine_conflict |-> StacksScan(b, reg) = "conflict",
     quality_changes_conflict |-> ChangesConflict(b, reg, "quality_changes"),
     definition_changes_conflict |-> ChangesConflict(b, reg, "definition_changes"),
     material_conflict |-> material_conflict(b, reg),
     num_settings_overriden_by_quality_changes |-> NumSettings(b.insts, "quality_changes"),
     num_user_settings |-> NumSettings(b.insts, "user"),
     machine_name |-> GlobalStackFile(b).name,
     num_extruders |-> IF extruder_definition_container_count(b, reg) = 0 THEN 1
                       ELSE extruder_definition_container_count(b, reg),
     found |-> containers_found_dict(b, reg)]

\* No report was handed to the dialog yet.
NoReport == [machine_conflict |-> None]

\* Defaults that do not look at what was found.
DefaultStrategiesAllNew(result, found) ==
    [key \in DOMAIN result |->
        IF key \notin DOMAIN found \/ result[key] # None THEN result[key] ELSE "new"]

\* Lines 371-374: the defaults for the strategies the dialog left None.
DefaultStrategies(result, found) ==
    [key \in DOMAIN result |->
        IF key \notin DOMAIN found \/ result[key] # None THEN result[key]
        ELSE IF found[key] THEN "override" ELSE "new"]

\* The states in which the caller may start an inspection.
CallerStates == {"idle", "accepted", "failed", "cancelled", "raised"}

\* The most reports the dialog is handed before a read().
MaxInspections == 2

\* No dialog result was given.
NoDecision == [decided |-> FALSE]

\* Strategies that start from the defaults instead of from None.
StrategiesDefaulted(b, reg) ==
    [k \in resolve_strategy_keys |->
        IF StackFilesRaise(b) THEN None
        ELSE IF containers_found_dict(b, reg)[k] THEN "override" ELSE "new"]

\* Line 138: every strategy is None until the dialog gives its result.
UndecidedStrategies(b, reg) == [k \in resolve_strategy_keys |-> None]

\* An inspection that registers the first definition it deserializes.
RegistryWithInspected(b, reg) ==
    IF b.defs = <<>> \/ Head(b.defs).bad THEN reg
    ELSE AddContainer(reg, Container("definition", Head(b.defs).type, Head(b.defs).id,
                                     Head(b.defs).id, 1))

\* The registry when preRead returns: preRead looks containers up and
\* deserializes files into containers of its own, and adds none (lines 117-376).
RegistryAfterInspection(b, reg) == reg

\* preRead up to the point where it blocks on the dialog (lines 117-356).
PreReadInspect(show_dialog, mesh_accepts) ==
    /\ pc \in CallerStates
    /\ inspections < MaxInspections
    /\ dialog_result' = NoDecision
    /\ registry' = RegistryAfterInspection(bundle, registry)
    /\ IF ~mesh_accepts
       THEN /\ pc' = "failed"
            /\ UNCHANGED <<resolve_strategies, report, inspections>>
       ELSE /\ resolve_strategies' = UndecidedStrategies(bundle, registry)
            /\ IF InspectionRaises(bundle, registry)
               THEN pc' = "raised" /\ UNCHANGED <<report, inspections>>
               ELSE IF ~bundle.has_preferences
               THEN pc' = "failed" /\ UNCHANGED <<report, inspections>>
               ELSE IF ~show_dialog
               THEN pc' = "accepted" /\ UNCHANGED <<report, inspections>>
               ELSE /\ pc' = "dialog"
                    /\ report' = ConflictReport(bundle, registry)
                    /\ inspections' = inspections + 1
    /\ UNCHANGED <<bundle, id_mapping, rd, registry0, id_log>>

\* The dialog closes (lines 358-376): an empty result cancels, any other
\* result becomes the strategies, with the defaults filled in.
PreReadDialogClosed(result) ==
    /\ pc = "dialog"
    /\ dialog_result' = [decided |-> TRUE, result |-> result]
    /\ IF DOMAIN result = {}
       THEN pc' = "cancelled" /\ UNCHANGED resolve_strategies
       ELSE /\ pc' = "accepted"
            /\ resolve_strategies' = DefaultStrategies(result, report.found)
    /\ UNCHANGED <<bundle, registry, id_mapping, report, rd, registry0, id_log,
                   inspections>>

\* ------------------------------------------------------------ getNewId

\* The largest number uniqueName tries as a suffix.
MaxUnique == 3

\* An empty dict.
EmptyMap == [k \in {} |-> None]

\* A container of the registry has this id or this name.
NameTaken(reg, name) ==
    name \in DOMAIN reg \/ \E i \in DOMAIN reg : reg[i].name = name

\* "%s #%d" % (name, i)
Numbered(name, i) == name \o " #" \o ToString(i)

RECURSIVE UniqueNameFrom(_, _, _)
UniqueNameFrom(reg, name, i) ==
    IF NameTaken(reg, Numbered(name, i)) /\ i < MaxUnique
    THEN UniqueNameFrom(reg, name, i + 1)
    ELSE Numbered(name, i)

\* ContainerRegistry.uniqueName: the name itself when it is free, else the
\* first free "name #i", i = 2, 3, ...
uniqueName(reg, original) ==
    IF ~NameTaken(reg, original) THEN original ELSE UniqueNameFrom(reg, original, 2)

\* The calls logged for an old id.
Logged(log, old_id) ==
    IF old_id \in DOMAIN log THEN log[old_id] ELSE [calls |-> 0, asks |-> 0]

\* The log with a getNewId call more, which asked the registry or did not.
LogCall(log, old_id, asks) ==
    [k \in DOMAIN log \cup {old_id} |->
        IF k = old_id
        THEN [calls |-> Logged(log, k).calls + 1, asks |-> Logged(log, k).asks + asks]
        ELSE log[k]]

\* getNewId without its cache: the registry is asked on every call.
GetNewIdUncached(ids, reg, old_id) ==
    [map |-> [k \in DOMAIN ids.map \cup {old_id} |->
                 IF k = old_id THEN uniqueName(reg, old_id) ELSE ids.map[k]],
     log |-> LogCall(ids.log, old_id, 1)]

\* getNewId (lines 69-72) on ids = [map: _id_mapping, log: the calls made];
\* the new id is then ids.map[old_id].
GetNewId(ids, reg, old_id) ==
    IF old_id \notin DOMAIN ids.map
    THEN [map |-> (old_id :> uniqueName(reg, old_id)) @@ ids.map,
          log |-> LogCall(ids.log, old_id, 1)]
    ELSE [map |-> ids.map, log |-> LogCall(ids.log, old_id, 0)]

\* The most getNewId calls a caller other than read() makes for an old id.
MaxCalls == 2

\* The old ids such a caller asks about.
CalledIds == {"ms", "mat1"}

\* The states in which read() has returned or raised.
EndStates == {"done", "rolled_back", "read_raised"}

\* A call of the public method getNewId (lines 69-72) while neither preRead
\* nor read() runs.
GetNewIdCall(old_id) ==
    /\ pc \in CallerStates \cup EndStates
    /\ Logged(id_log, old_id).calls < MaxCalls
    /\ LET ids == GetNewId([map |-> id_mapping, log |-> id_log], registry, old_id)
       IN  id_mapping' = ids.map /\ id_log' = ids.log
    /\ UNCHANGED <<bundle, registry, resolve_strategies, report, pc, rd, registry0,
                   dialog_result, inspections>>

\* ------------------------------------------------------------ read

\* self._resolve_strategies[key]; a missing key is a KeyError.
Strategy(rs, key) == IF key \in DOMAIN rs THEN rs[key] ELSE "KeyError"

\* The states of the caller while read() runs.
ReadStates == {"read_definitions", "read_materials", "read_instances",
               "read_commit", "read_global_stack", "read_extruder_stacks",
               "read_repair", "read_relink"}

\* No read() is running.
NoLocals == [global_stack_id_new |-> None]

\* Lines 466-473: the new id of every extruder stack file.
RECURSIVE ExtruderIdMap(_, _, _, _)
ExtruderIdMap(files, reg, ids, map) ==
    IF files = <<>> THEN [ids |-> ids, map |-> map]
    ELSE LET old_container_id == Head(files).id
             ids1 == IF FoundStack(reg, old_container_id)
                     THEN GetNewId(ids, reg, old_container_id) ELSE ids
             new_container_id == IF FoundStack(reg, old_container_id)
                                 THEN ids1.map[old_container_id]
                                 ELSE old_container_id
         IN  ExtruderIdMap(Tail(files), reg, ids1,
                           [k \in DOMAIN map \cup {old_container_id} |->
                               IF k = old_container_id THEN new_container_id
                               ELSE map[k]])

\* A map that read() does not empty.
StaleIdMapping == id_mapping

\* Line 435: self._id_mapping = {}.
FreshIdMapping == EmptyMap

\* read() from its entry to line 473: _id_mapping is emptied, and for the
\* strategy "new" the ids of the machine and of its extruders are chosen.
ReadStart ==
    /\ pc = "accepted"
    /\ registry0' = registry
    /\ inspections' = 0
    /\ dialog_result' = NoDecision
    /\ IF ~bundle.has_preferences
       THEN /\ pc' = "read_raised"
            /\ rd' = NoLocals
            /\ UNCHANGED <<id_mapping, id_log>>
       ELSE IF StackFilesRaise(bundle) \/ "machine" \notin DOMAIN resolve_strategies
       THEN /\ pc' = "read_raised"
            /\ rd' = NoLocals
            /\ id_mapping' = FreshIdMapping
            /\ id_log' = EmptyMap
       ELSE LET g == GlobalStackFile(bundle)
                new == resolve_strategies["machine"] = "new"
                rename == new /\ FoundStack(registry, g.id)
                ids0 == [map |-> FreshIdMapping, log |-> EmptyMap]
                ids1 == IF rename THEN GetNewId(ids0, registry, g.id) ELSE ids0
                em == IF new
                      THEN ExtruderIdMap(ExtruderStackFiles(bundle), registry, ids1, EmptyMap)
                      ELSE [ids |-> ids1, map |-> EmptyMap]
            IN  /\ pc' = "read_definitions"
                /\ id_mapping' = em.ids.map
                /\ id_log' = em.ids.log
                /\ rd' = [global_stack_id_new |-> IF rename THEN ids1.map[g.id] ELSE g.id,
                          global_stack_name_new |->
                              IF new THEN uniqueName(registry, g.name) ELSE g.name,
                          global_stack_need_rename |-> rename,
                          extruder_stack_id_map |-> em.map,
                          containers_to_add |-> <<>>,
                          containers_added |-> <<>>,
                          material_containers |-> <<>>,
                          user_instance_containers |-> <<>>,
                          changes_containers |-> <<>>,
                          global_stack |-> None,
                          extruder_stacks |-> <<>>,
                          machine_extruder_count |-> NoCount,
                          has_not_supported |-> FALSE,
                          available_quality_types |-> {},
                          quality_has_been_changed |-> FALSE,
                          preferred_quality_id |-> None,
                          nodes |-> None,
                          id_mapping0 |-> id_mapping]
    /\ UNCHANGED <<bundle, registry, resolve_strategies, report>>

\* The definition container a definition file deserializes to.
DefinitionOf(f) == Container("definition", f.type, f.id, f.id, 1)

\* Lines 481-489: a definition that is not in the registry is deserialized
\* and added to it at once.
RECURSIVE AddDefinitions(_, _)
AddDefinitions(files, reg) ==
    IF files = <<>> THEN [reg |-> reg, raised |-> FALSE]
    ELSE IF FoundDefinition(reg, Head(files).id) THEN AddDefinitions(Tail(files), reg)
    ELSE IF Head(files).bad THEN [reg |-> reg, raised |-> TRUE]
    ELSE AddDefinitions(Tail(files), AddContainer(reg, DefinitionOf(Head(files))))

ReadDefinitions ==
    /\ pc = "read_definitions"
    /\ LET r == AddDefinitions(bundle.defs, registry)
       IN  /\ registry' = r.reg
           /\ pc' = IF r.raised THEN "read_raised" ELSE "read_materials"
    /\ UNCHANGED <<bundle, resolve_strategies, id_mapping, report, rd, registry0, id_log,
                   dialog_result, inspections>>

\* The material container a material file deserializes to, under an id.
MaterialOf(f, id) == Container("instance", "material", id, f.name, f.content)

\* deserialize() of a material file over the live material.
MaterialOver(live, f) == [live EXCEPT !.name = f.name, !.content = f.content]

\* A loop body that deserializes a material under the id of its file whatever
\* the strategy is.
ProcessMaterialKeepId(st, f, rs) ==
    IF ~FoundInstance(st.reg, f.id)
    THEN IF f.bad THEN [st EXCEPT !.raised = TRUE]
         ELSE [st EXCEPT !.add = Append(@, MaterialOf(f, f.id)),
                         !.mats = Append(@, f.id)]
    ELSE IF IsReadOnly(st.reg, f.id) THEN [st EXCEPT !.mats = Append(@, f.id)]
    ELSE IF Strategy(rs, "material") = "KeyError" THEN [st EXCEPT !.raised = TRUE]
    ELSE IF Strategy(rs, "material") = "override"
    THEN IF f.bad THEN [st EXCEPT !.raised = TRUE]
         ELSE [st EXCEPT !.reg = [@ EXCEPT ![f.id] = MaterialOver(@, f)],
                         !.mats = Append(@, f.id)]
    ELSE IF Strategy(rs, "material") = "new"
    THEN IF f.bad THEN [st EXCEPT !.raised = TRUE]
         ELSE [st EXCEPT !.add = Append(@, MaterialOf(f, f.id)),
                         !.mats = Append(@, f.id)]
    ELSE [st EXCEPT !.mats = Append(@, f.id)]

\* A loop body that does not ask whether the live material is read-only.
ProcessMaterialAnyLive(st, f, rs) ==
    IF ~FoundInstance(st.reg, f.id)
    THEN IF f.bad THEN [st EXCEPT !.raised = TRUE]
         ELSE [st EXCEPT !.add = Append(@, MaterialOf(f, f.id)),
                         !.mats = Append(@, f.id)]
    ELSE IF Strategy(rs, "material") = "KeyError" THEN [st EXCEPT !.raised = TRUE]
    ELSE IF Strategy(rs, "material") = "override"
    THEN IF f.bad THEN [st EXCEPT !.raised = TRUE]
         ELSE [st EXCEPT !.reg = [@ EXCEPT ![f.id] = MaterialOver(@, f)],
                         !.mats = Append(@, f.id)]
    ELSE IF Strategy(rs, "material") = "new"
    THEN LET ids1 == GetNewId(st.ids, st.reg, f.id) IN
         IF f.bad THEN [st EXCEPT !.ids = ids1, !.raised = TRUE]
         ELSE [st EXCEPT !.ids = ids1,
                         !.add = Append(@, MaterialOf(f, ids1.map[f.id])),
                         !.mats = Append(@, ids1.map[f.id])]
    ELSE [st EXCEPT !.mats = Append(@, f.id)]

\* Lines 499-523 for one file, on st = [reg, ids, add, mats, raised].
ProcessMaterial(st, f, rs) ==
    IF ~FoundInstance(st.reg, f.id)
    THEN IF f.bad THEN [st EXCEPT !.raised = TRUE]
         ELSE [st EXCEPT !.add = Append(@, MaterialOf(f, f.id)),
                         !.mats = Append(@, f.id)]
    ELSE IF IsReadOnly(st.reg, f.id) THEN [st EXCEPT !.mats = Append(@, f.id)]
    ELSE IF Strategy(rs, "material") = "KeyError" THEN [st EXCEPT !.raised = TRUE]
    ELSE IF Strategy(rs, "material") = "override"
    THEN IF f.bad THEN [st EXCEPT !.raised = TRUE]
         ELSE [st EXCEPT !.reg = [@ EXCEPT ![f.id] = MaterialOver(@, f)],
                         !.mats = Append(@, f.id)]
    ELSE IF Strategy(rs, "material") = "new"
    THEN LET ids1 == GetNewId(st.ids, st.reg, f.id) IN
         IF f.bad THEN [st EXCEPT !.ids = ids1, !.raised = TRUE]
         ELSE [st EXCEPT !.ids = ids1,
                         !.add = Append(@, MaterialOf(f, ids1.map[f.id])),
                         !.mats = Append(@, ids1.map[f.id])]
    ELSE [st EXCEPT !.mats = Append(@, f.id)]

RECURSIVE ProcessMaterials(_, _, _)
ProcessMaterials(st, files, rs) ==
    IF files = <<>> \/ st.raised THEN st
    ELSE ProcessMaterials(ProcessMaterial(st, Head(files), rs), Tail(files), rs)

ReadMaterials ==
    /\ pc = "read_materials"
    /\ LET st == ProcessMaterials(
                    [reg |-> registry, ids |-> [map |-> id_mapping, log |-> id_log],
                     add |-> rd.containers_to_add, mats |-> <<>>, raised |-> FALSE],
                    bundle.mats, resolve_strategies)
       IN  /\ registry' = st.reg
           /\ id_mapping' = st.ids.map
           /\ id_log' = st.ids.log
           /\ rd' = [rd EXCEPT !.containers_to_add = st.add,
                               !.material_containers = st.mats]
           /\ pc' = IF st.raised THEN "read_raised" ELSE "read_instances"
    /\ UNCHANGED <<bundle, resolve_strategies, report, registry0, dialog_result,
                   inspections>>

\* deserialize() of an instance container file over the live container.
InstanceOver(live, f) ==
    [live EXCEPT !.type = f.type, !.name = f.name, !.content = f.content,
                 !.nsettings = f.nsettings, !.machine = f.machine,
                 !.extruder = f.extruder]

\* Lines 645-647: the machine the container names becomes the new machine id.
Renamed(c, loc) ==
    IF loc.global_stack_need_rename /\ c.machine # None
    THEN [c EXCEPT !.machine = loc.global_stack_id_new] ELSE c

\* The container of this file is one to add (lines 564, 580, 596, 629, 644).
ToAdd(st, c, loc, list) ==
    [st EXCEPT !.add = Append(@, Renamed(c, loc)),
               ![list] = Append(@, Renamed(c, loc))]

\* The container of this file is the live one, deserialized over and marked
\* dirty (lines 567-570 and 601-604).
Overridden(st, f, loc, list) ==
    LET c == Renamed([InstanceOver(st.reg[f.id], f) EXCEPT !.dirty = TRUE], loc)
    IN  [st EXCEPT !.reg = [@ EXCEPT ![f.id] = c], ![list] = Append(@, c)]

\* The container of this file is neither added nor stored.
Dropped(st, c, loc, list) == [st EXCEPT ![list] = Append(@, Renamed(c, loc))]

\* Lines 560-590: a user container.
ProcessUser(st, f, rs, loc) ==
    LET c == InstanceOf(f)
        machine == Strategy(rs, "machine")
    IN  IF ~FoundInstance(st.reg, f.id) THEN ToAdd(st, c, loc, "users")
        ELSE IF machine = "KeyError" THEN [st EXCEPT !.raised = TRUE]
        ELSE IF machine \in {"override", None} THEN Overridden(st, f, loc, "users")
        ELSE IF machine = "new"
        THEN IF c.extruder # None /\ c.extruder \notin DOMAIN loc.extruder_stack_id_map
             THEN [st EXCEPT !.raised = TRUE]                     \* line 575
             ELSE IF c.machine # None
             THEN [st EXCEPT !.ids = GetNewId(@, st.reg, c.machine),
                             !.raised = TRUE]                     \* line 586
             ELSE IF c.extruder # None
             THEN LET new_extruder_id == loc.extruder_stack_id_map[c.extruder]
                      new_id == new_extruder_id \o "_current_settings"
                  IN  ToAdd(st, [c EXCEPT !.id = new_id, !.name = new_id,
                                          !.extruder = new_extruder_id],
                            loc, "users")
             ELSE Dropped(st, c, loc, "users")
        ELSE Dropped(st, c, loc, "users")

\* A branch for "new" that renames the container and leaves the machine and
\* the extruder it names as the file has them.
ProcessChangesUnlinked(st, f, rs, loc) ==
    LET c == InstanceOf(f)
        strategy == Strategy(rs, f.type)
    IN  IF ~FoundInstance(st.reg, f.id) THEN ToAdd(st, c, loc, "changes")
        ELSE IF strategy = "KeyError" THEN [st EXCEPT !.raised = TRUE]
        ELSE IF strategy = "override" THEN Overridden(st, f, loc, "changes")
        ELSE IF strategy = "new"
        THEN LET ids1 == GetNewId(st.ids, st.reg, c.id)
                 c1 == [c EXCEPT !.name = uniqueName(st.reg, c.name),
                                 !.id = ids1.map[c.id]]
             IN  ToAdd([st EXCEPT !.ids = ids1], c1, loc, "changes")
        ELSE Dropped(st, c, loc, "changes")

\* Lines 591-634: a quality_changes or definition_changes container.
ProcessChanges(st, f, rs, loc) ==
    LET c == InstanceOf(f)
        strategy == Strategy(rs, f.type)
    IN  IF ~FoundInstance(st.reg, f.id) THEN ToAdd(st, c, loc, "changes")
        ELSE IF strategy = "KeyError" THEN [st EXCEPT !.raised = TRUE]
        ELSE IF strategy = "override" THEN Overridden(st, f, loc, "changes")
        ELSE IF strategy = "new"
        THEN LET ids1 == GetNewId(st.ids, st.reg, c.id)
                 relink == Strategy(rs, "machine") = "new"
                 ids2 == IF relink /\ c.machine # None
                         THEN GetNewId(ids1, st.reg, c.machine) ELSE ids1
                 c1 == [c EXCEPT
                          !.name = uniqueName(st.reg, c.name),
                          !.id = ids1.map[c.id],
                          !.extruder =
                              IF relink /\ c.extruder # None
                                 /\ c.extruder \in DOMAIN loc.extruder_stack_id_map
                              THEN loc.extruder_stack_id_map[c.extruder] ELSE @,
                          !.machine =
                              IF relink /\ c.machine # None
                              THEN ids2.map[c.machine] ELSE @]
             IN  ToAdd([st EXCEPT !.ids = ids2], c1, loc, "changes")
        ELSE Dropped(st, c, loc, "changes")

\* A loop over the files that ignores no type: a container of a type that is
\* neither user nor a changes type is added when its id is free.
ProcessInstanceOfAnyType(st, f, rs, loc) ==
    IF f.type = None THEN st
    ELSE IF f.bad THEN [st EXCEPT !.raised = TRUE]
    ELSE IF f.type = "user" THEN ProcessUser(st, f, rs, loc)
    ELSE IF f.type \in {"quality_changes", "definition_changes"}
    THEN ProcessChanges(st, f, rs, loc)
    ELSE IF ~FoundInstance(st.reg, f.id)
    THEN [st EXCEPT !.add = Append(@, Renamed(InstanceOf(f), loc))]
    ELSE st

\* Lines 530-647 for one file, on st = [reg, ids, add, users, changes, raised].
ProcessInstance(st, f, rs, loc) ==
    IF f.type = None \/ f.type \in ignored_instance_container_types THEN st
    ELSE IF f.bad THEN [st EXCEPT !.raised = TRUE]
    ELSE IF f.type = "user" THEN ProcessUser(st, f, rs, loc)
    ELSE IF f.type \in {"quality_changes", "definition_changes"}
    THEN ProcessChanges(st, f, rs, loc)
    ELSE IF ~FoundInstance(st.reg, f.id)
    THEN [st EXCEPT !.add = Append(@, Renamed(InstanceOf(f), loc))]
    ELSE st

\* Lines 636-639: a definition_changes container that has a value for
\* machine_extruder_count gives the number of extruders in use.
WithExtruderCount(st, f) ==
    IF ~st.raised /\ f.type = "definition_changes" /\ f.machine_extruder_count # NoCount
    THEN [st EXCEPT !.count = f.machine_extruder_count] ELSE st

RECURSIVE ProcessInstances(_, _, _, _)
ProcessInstances(st, files, rs, loc) ==
    IF files = <<>> \/ st.raised THEN st
    ELSE ProcessInstances(WithExtruderCount(ProcessInstance(st, Head(files), rs, loc),
                                            Head(files)),
                          Tail(files), rs, loc)

ReadInstances ==
    /\ pc = "read_instances"
    /\ LET st == ProcessInstances(
                    [reg |-> registry, ids |-> [map |-> id_mapping, log |-> id_log],
                     add |-> rd.containers_to_add, users |-> <<>>, changes |-> <<>>,
                     count |-> rd.machine_extruder_count, raised |-> FALSE],
                    bundle.insts, resolve_strategies, rd)
       IN  /\ registry' = st.reg
           /\ id_mapping' = st.ids.map
           /\ id_log' = st.ids.log
           /\ rd' = [rd EXCEPT !.containers_to_add = st.add,
                               !.user_instance_containers = st.users,
                               !.changes_containers = st.changes,
                               !.machine_extruder_count = st.count]
           /\ pc' = IF st.raised THEN "read_raised" ELSE "read_commit"
    /\ UNCHANGED <<bundle, resolve_strategies, report, registry0, dialog_result,
                   inspections>>

\* Lines 650-653: the pending containers are added and marked dirty.
RECURSIVE AddAll(_, _)
AddAll(reg, containers) ==
    IF containers = <<>> THEN reg
    ELSE AddAll(AddContainer(reg, [Head(containers) EXCEPT !.dirty = TRUE]),
                Tail(containers))

\* container.getId() of every container of a list.
IdsOf(containers) == [i \in 1..Len(containers) |-> containers[i].id]

ReadCommit ==
    /\ pc = "read_commit"
    /\ registry' = AddAll(registry, rd.containers_to_add)
    /\ rd' = [rd EXCEPT !.containers_added = @ \o IdsOf(rd.containers_to_add)]
    /\ pc' = "read_global_stack"
    /\ UNCHANGED <<bundle, resolve_strategies, id_mapping, report, registry0, id_log,
                   dialog_result, inspections>>

\* The slot of _ContainerIndexes.DefinitionChanges, as a sequence index.
DefinitionChangesSlot == LegacyInsertIndex + 1

\* The stack a stack file deserializes to, under an id.
StackOf(f, id) ==
    [Container("stack", f.type, id, f.name, 1) EXCEPT
        !.containers = getContainerIdListFromSerialized(f),
        !.machine = f.machine, !.position = f.position,
        !.authId = f.authId, !.authKey = f.authKey]

\* deserialize() of a stack file over a live stack: the name, the metadata
\* and the containers become the file's.
StackOver(live, f) ==
    [live EXCEPT !.type = f.type, !.name = f.name,
                 !.containers = getContainerIdListFromSerialized(f),
                 !.machine = f.machine, !.position = f.position,
                 !.authId = f.authId, !.authKey = f.authKey]

\* addMetaDataEntry(key, value): an entry that exists is kept.
AddMetaDataEntry(current, value) == IF current = None THEN value ELSE current

\* An override that is only stack.deserialize() over the live stack.
OverrideGlobalStackPlain(live, f) == StackOver(live, f)

\* Lines 663-674: the live stack takes the file's content and keeps the
\* authentication data it had.
OverrideGlobalStack(live, f) ==
    [StackOver(live, f) EXCEPT
        !.authId = IF live.authId # None THEN AddMetaDataEntry(@, live.authId) ELSE @,
        !.authKey = IF live.authKey # None THEN AddMetaDataEntry(@, live.authKey) ELSE @]

\* Lines 678-692: the new stack of the machine.
NewGlobalStack(f, loc) ==
    [StackOf(f, loc.global_stack_id_new) EXCEPT
        !.machine = IF @ # None THEN loc.global_stack_id_new ELSE @,
        !.name = loc.global_stack_name_new]

\* Lines 701-702 and 752-753: a stack whose definition_changes slot holds the
\* empty container gets a new definition_changes container, which
\* CuraStackBuilder.createDefinitionChangesContainer adds to the registry.
WithDefinitionChanges(reg, stack_id) ==
    LET stack == reg[stack_id]
        new_id == uniqueName(reg, stack_id \o "_settings")
    IN  IF Len(stack.containers) >= DefinitionChangesSlot
           /\ stack.containers[DefinitionChangesSlot] = EmptyId
        THEN [AddContainer(reg, Container("instance", "definition_changes",
                                          new_id, new_id, 0))
                EXCEPT ![stack_id].containers[DefinitionChangesSlot] = new_id]
        ELSE reg

\* Lines 708-709 and 776-777: every container added so far is removed.
RECURSIVE RemoveAll(_, _)
RemoveAll(reg, ids) ==
    IF ids = <<>> THEN reg
    ELSE RemoveAll(RemoveContainer(reg, Head(ids)), Tail(ids))

\* Lines 659-704, without the except clause:
\* [reg, added, global_stack, raised].
LoadGlobalStack(reg, f, rs, loc) ==
    LET strategy == Strategy(rs, "machine")
        fail == [reg |-> reg, added |-> loc.containers_added,
                 global_stack |-> None, raised |-> TRUE]
    IN  IF strategy = "override"
        THEN IF ~FoundStack(reg, f.id) \/ f.bad THEN fail
             ELSE [reg |-> WithDefinitionChanges(
                              [reg EXCEPT ![f.id] = OverrideGlobalStack(@, f)], f.id),
                   added |-> loc.containers_added,
                   global_stack |-> f.id, raised |-> FALSE]
        ELSE IF strategy = "new"
        THEN IF f.bad THEN fail
             ELSE [reg |-> WithDefinitionChanges(
                              AddContainer(reg, NewGlobalStack(f, loc)),
                              loc.global_stack_id_new),
                   added |-> Append(loc.containers_added, loc.global_stack_id_new),
                   global_stack |-> loc.global_stack_id_new, raised |-> FALSE]
        ELSE fail

\* Lines 659-710: the machine stack; any exception removes what was added
\* and ends read().
ReadGlobalStack ==
    /\ pc = "read_global_stack"
    /\ LET r == LoadGlobalStack(registry, GlobalStackFile(bundle), resolve_strategies, rd)
       IN  IF r.raised
           THEN /\ registry' = RemoveAll(r.reg, r.added)
                /\ rd' = [rd EXCEPT !.containers_added = r.added]
                /\ pc' = "rolled_back"
           ELSE /\ registry' = r.reg
                /\ rd' = [rd EXCEPT !.containers_added = r.added,
                                    !.global_stack = r.global_stack]
                /\ pc' = "read_extruder_stacks"
    /\ UNCHANGED <<bundle, resolve_strategies, id_mapping, report, registry0, id_log,
                   dialog_result, inspections>>

\* GlobalStack.addExtruder: the extruder becomes the machine's extruder at
\* its position; an extruder without a position is not added.
AddExtruder(machine, extruder) ==
    IF extruder.position = None THEN machine
    ELSE [machine EXCEPT !.extruders =
             {e \in @ : e[1] # extruder.position}
             \cup {<<extruder.position, extruder.id>>}]

\* A new extruder stack that keeps the machine its file names.
NewExtruderStackUnbound(f, loc) == StackOf(f, loc.extruder_stack_id_map[f.id])

\* Lines 724-747: the new stack of an extruder, bound to the new machine.
NewExtruderStack(f, loc) ==
    [StackOf(f, loc.extruder_stack_id_map[f.id]) EXCEPT
        !.machine = loc.global_stack_id_new]

\* Lines 714-756 for one file, on st = [reg, added, stacks, raised].
LoadExtruderStack(st, f, rs, loc, global_stack) ==
    LET strategy == Strategy(rs, "machine") IN
    IF strategy = "override"
    THEN IF f.position = None THEN [st EXCEPT !.raised = TRUE]       \* line 386
         ELSE IF ~HasExtruderAt(st.reg[global_stack], f.position) THEN st
         ELSE IF f.bad THEN [st EXCEPT !.raised = TRUE]
         ELSE LET id == ExtruderAt(st.reg[global_stack], f.position)
                  reg1 == WithDefinitionChanges(
                              [st.reg EXCEPT ![id] = StackOver(@, f)], id)
              IN  [st EXCEPT !.reg = reg1,
                             !.stacks = IF f.type = "extruder_train"
                                        THEN Append(@, id) ELSE @]
    ELSE IF strategy = "new"
    THEN IF f.bad THEN [st EXCEPT !.raised = TRUE]
         ELSE LET stack == NewExtruderStack(f, loc)
                  reg1 == [AddContainer(st.reg, stack) EXCEPT
                              ![global_stack] = AddExtruder(@, stack)]
              IN  [st EXCEPT !.reg = WithDefinitionChanges(reg1, stack.id),
                             !.added = Append(@, stack.id),
                             !.stacks = IF f.type = "extruder_train"
                                        THEN Append(@, stack.id) ELSE @]
    ELSE [st EXCEPT !.raised = TRUE]

RECURSIVE LoadExtruderStacks(_, _, _, _, _)
LoadExtruderStacks(st, files, rs, loc, global_stack) ==
    IF files = <<>> \/ st.raised THEN st
    ELSE LoadExtruderStacks(LoadExtruderStack(st, Head(files), rs, loc, global_stack),
                            Tail(files), rs, loc, global_stack)

\* The number of slots of a stack: len(_ContainerIndexes.IndexTypeMap).
SlotCount == LegacySlotCount + 1

\* CuraContainerRegistry.addExtruderStackForSingleExtrusionMachine: an
\* extruder stack at position "0" that takes the machine's variant, material,
\* quality and quality_changes, with a user container of its own; both are
\* added to the registry.
SingleExtruderStack(reg, machine) ==
    LET id == uniqueName(reg, machine.name \o " fdmextruder") IN
    [Container("stack", "extruder_train", id, "fdmextruder", 0) EXCEPT
        !.containers = [i \in 1..SlotCount |->
            IF i = 1 THEN id \o "_user"
            ELSE IF i = DefinitionChangesSlot THEN EmptyId
            ELSE IF i = SlotCount THEN "fdmextruder"
            ELSE IF i <= Len(machine.containers) THEN machine.containers[i]
            ELSE EmptyId],
        !.machine = machine.id, !.position = "0"]

\* Lines 760-771: a project without extruder stacks gets one extruder stack;
\* under "override" its containers replace those of the live extruder.
WithSingleExtruder(st, rs, global_stack) ==
    LET machine == st.reg[global_stack]
        stack == SingleExtruderStack(st.reg, machine)
        user == Container("instance", "user", stack.containers[1],
                          stack.containers[1], 0)
        existing == IF HasExtruderAt(machine, stack.position)
                    THEN ExtruderAt(machine, stack.position) ELSE stack.id
        reg1 == [AddContainer(AddContainer(st.reg, user), stack) EXCEPT
                    ![global_stack] = IF HasExtruderAt(machine, stack.position)
                                      THEN @ ELSE AddExtruder(@, stack)]
    IN  IF Strategy(rs, "machine") = "override"
        THEN [st EXCEPT !.reg = [reg1 EXCEPT ![existing].containers = stack.containers],
                        !.stacks = <<existing>>]
        ELSE [st EXCEPT !.reg = reg1, !.stacks = <<stack.id>>]

\* A step that goes on to the repair whether or not it raised.
GoesOn(raised) == "read_repair"

\* Lines 773-778: the except clause returns, and read() goes on to the
\* repair of line 781 only if nothing was raised.
AfterExtruderStacks(raised) == IF raised THEN "rolled_back" ELSE "read_repair"

\* Lines 713-778: the extruder stacks; any exception removes what was added
\* and ends read().
ReadExtruderStacks ==
    /\ pc = "read_extruder_stacks"
    /\ LET st0 == LoadExtruderStacks(
                     [reg |-> registry, added |-> rd.containers_added,
                      stacks |-> <<>>, raised |-> FALSE],
                     ExtruderStackFiles(bundle), resolve_strategies, rd, rd.global_stack)
           st == IF ~st0.raised /\ st0.stacks = <<>>
                 THEN WithSingleExtruder(st0, resolve_strategies, rd.global_stack)
                 ELSE st0
       IN  IF st.raised
           THEN /\ registry' = RemoveAll(st.reg, st.added)
                /\ rd' = [rd EXCEPT !.containers_added = st.added]
                /\ pc' = AfterExtruderStacks(TRUE)
           ELSE /\ registry' = st.reg
                /\ rd' = [rd EXCEPT !.containers_added = st.added,
                                    !.extruder_stacks = st.stacks]
                /\ pc' = AfterExtruderStacks(FALSE)
    /\ UNCHANGED <<bundle, resolve_strategies, id_mapping, report, registry0, id_log,
                   dialog_result, inspections>>

\* _ContainerIndexes: the slots of a stack for the user changes, the quality
\* changes, the quality and the material.
UserChangesSlot == 1

QualityChangesSlot == 2

QualitySlot == 3

MaterialSlot == 4

\* stack.userChanges, stack.quality, ...: the id of the container in a slot.
SlotOf(stack, slot) ==
    IF slot <= Len(stack.containers) THEN stack.containers[slot] ELSE EmptyId

\* stack.replaceContainer(slot, container), and the setters of the slots.
ReplaceContainer(reg, stack_id, slot, id) ==
    LET old == reg[stack_id].containers
        n == IF slot > Len(old) THEN slot ELSE Len(old)
    IN  [reg EXCEPT ![stack_id].containers =
            [i \in 1..n |-> IF i = slot THEN id
                            ELSE IF i <= Len(old) THEN old[i] ELSE EmptyId]]

\* The quality_type metadata of the quality profiles.
QualityType(id) ==
    IF id = "q1" THEN "normal"
    ELSE IF id = "q1_dm" THEN "normal"
    ELSE IF id = "q2" THEN "fast"
    ELSE IF id = "qp" THEN "draft"
    ELSE IF id = "empty_quality" THEN "not_supported"
    ELSE None

\* What the machine and the quality manager answer during the repair:
\* the quality types of findAllUsableQualitiesForMachineAndExtruders (line
\* 804), the metadata preferred_quality (line 836) and has_machine_materials
\* (lines 853, 883) of the machine.
RepairAnswers ==
    [available_quality_types : {{}, {"normal"}, {"draft"}},
     preferred_quality : {None, "qp"},
     has_machine_materials : BOOLEAN]

\* Lines 793-797: a stack holds the empty quality.
HasNotSupported(reg, stacks) ==
    \E i \in 1..Len(stacks) :
        SlotOf(reg[stacks[i]], QualitySlot) \in {"empty", "empty_quality"}

\* Lines 800-802: extruder_stacks[:machine_extruder_count].
ExtruderStacksInUse(extruder_stacks, machine_extruder_count) ==
    IF machine_extruder_count = NoCount THEN extruder_stacks
    ELSE IF machine_extruder_count[1] >= Len(extruder_stacks) THEN extruder_stacks
    ELSE SubSeq(extruder_stacks, 1, machine_extruder_count[1])

\* Stacks to empty that leave out no extruder stack.
AllStacks(global_stack, extruder_stacks, extruder_stacks_in_use) ==
    <<global_stack>> \o extruder_stacks

\* The stacks whose quality slots lines 811-818 empty.
StacksToEmpty(global_stack, extruder_stacks, extruder_stacks_in_use) ==
    <<global_stack>> \o extruder_stacks_in_use

\* Lines 811-818: the quality and the quality changes of the stacks become
\* the empty ones.
RECURSIVE SetNotSupported(_, _)
SetNotSupported(reg, stacks) ==
    IF stacks = <<>> THEN reg
    ELSE SetNotSupported(
            ReplaceContainer(ReplaceContainer(reg, Head(stacks), QualitySlot,
                                              "empty_quality"),
                             Head(stacks), QualityChangesSlot, "empty_quality_changes"),
            Tail(stacks))

\* findInstanceContainers(type = "quality", ...) with the criterion of a
\* material: no quality profile of the registry names a material.
FoundQuality(reg, id, material) ==
    /\ FoundInstance(reg, id)
    /\ reg[id].type = "quality"
    /\ material = None

\* Lines 853-854, 883-884: the material that is a search criterion.
MaterialCriterion(reg, extruder_stack, has_machine_materials) ==
    LET material == SlotOf(reg[extruder_stack], MaterialSlot) IN
    IF has_machine_materials /\ material \notin {"empty", "empty_material"}
    THEN material ELSE None

\* Lines 849-861: the preferred quality for the extruder stacks in use.
RECURSIVE SetPreferredQuality(_, _, _, _)
SetPreferredQuality(reg, stacks, preferred_quality_id, has_machine_materials) ==
    IF stacks = <<>> THEN reg
    ELSE LET extruder_stack == Head(stacks)
             material == MaterialCriterion(reg, extruder_stack, has_machine_materials)
             reg1 == IF FoundQuality(reg, preferred_quality_id, material)
                     THEN ReplaceContainer(
                              ReplaceContainer(reg, extruder_stack, QualitySlot,
                                               preferred_quality_id),
                              extruder_stack, QualityChangesSlot, "empty_quality_changes")
                     ELSE reg
         IN  SetPreferredQuality(reg1, Tail(stacks), preferred_quality_id,
                                 has_machine_materials)

\* A fallback that empties the quality of the machine when no preferred
\* quality is found.
UseEmptyQuality(reg, global_stack, extruder_stacks_in_use, answers) ==
    IF answers.preferred_quality # None
       /\ FoundQuality(reg, answers.preferred_quality, None)
    THEN SetPreferredQuality(
            ReplaceContainer(
                ReplaceContainer(reg, global_stack, QualitySlot,
                                 answers.preferred_quality),
                global_stack, QualityChangesSlot, "empty_quality_changes"),
            extruder_stacks_in_use, answers.preferred_quality,
            answers.has_machine_materials)
    ELSE SetNotSupported(reg, <<global_stack>>)

\* Lines 831-864: the quality type of the machine is not usable; the
\* preferred quality takes its place if the machine names one and the
\* registry holds it.
UsePreferredQuality(reg, global_stack, extruder_stacks_in_use, answers) ==
    LET preferred_quality_id == answers.preferred_quality IN
    IF preferred_quality_id = None THEN reg
    ELSE IF ~FoundQuality(reg, preferred_quality_id, None) THEN reg
    ELSE SetPreferredQuality(
            ReplaceContainer(
                ReplaceContainer(reg, global_stack, QualitySlot, preferred_quality_id),
                global_stack, QualityChangesSlot, "empty_quality_changes"),
            extruder_stacks_in_use, preferred_quality_id, answers.has_machine_materials)

\* Lines 880-885: the quality profiles of the quality type of the machine.
QualityCandidates(reg, global_stack, extruder_stack, has_machine_materials) ==
    {id \in DOMAIN reg :
        /\ FoundQuality(reg, id, MaterialCriterion(reg, extruder_stack,
                                                   has_machine_materials))
        /\ QualityType(id) = QualityType(SlotOf(reg[global_stack], QualitySlot))}

\* Lines 876-889: a machine with one extruder stack takes containers[0] for
\* the extruder stack and for the machine.
FixQuality(reg, global_stack, extruder_stacks, new_quality_container) ==
    IF Len(extruder_stacks) = 1 /\ new_quality_container # None
    THEN ReplaceContainer(
            ReplaceContainer(reg, extruder_stacks[1], QualitySlot, new_quality_container),
            global_stack, QualitySlot, new_quality_container)
    ELSE reg

\* Lines 793-889 on the registry: [reg, has_not_supported,
\* quality_has_been_changed, preferred_quality_id].
QualityRepair(reg, global_stack, extruder_stacks, count, answers, containers0) ==
    LET extruder_stacks_in_use == ExtruderStacksInUse(extruder_stacks, count)
        has_not_supported ==
            \/ HasNotSupported(reg, <<global_stack>> \o extruder_stacks)
            \/ answers.available_quality_types = {}
    IN  IF has_not_supported
        THEN [reg |-> SetNotSupported(reg, StacksToEmpty(global_stack, extruder_stacks,
                                                         extruder_stacks_in_use)),
              has_not_supported |-> TRUE, changed |-> TRUE, preferred |-> None]
        ELSE IF QualityType(SlotOf(reg[global_stack], QualitySlot))
                    \notin answers.available_quality_types
        THEN [reg |-> UsePreferredQuality(reg, global_stack, extruder_stacks_in_use,
                                          answers),
              has_not_supported |-> FALSE, changed |-> TRUE,
              preferred |-> answers.preferred_quality]
        ELSE [reg |-> FixQuality(reg, global_stack, extruder_stacks, containers0),
              has_not_supported |-> FALSE, changed |-> FALSE, preferred |-> None]

\* Lines 781-889: the repair of the quality profiles of the stacks.
\* containers[0] of line 887 is any of the candidates.
ReadRepair(answers) ==
    /\ pc = "read_repair"
    /\ LET candidates ==
               IF Len(rd.extruder_stacks) = 1
               THEN QualityCandidates(registry, rd.global_stack, rd.extruder_stacks[1],
                                      answers.has_machine_materials)
               ELSE {}
       IN  \E new_quality_container \in
                  IF candidates = {} THEN {None} ELSE candidates :
              LET r == QualityRepair(registry, rd.global_stack, rd.extruder_stacks,
                                     rd.machine_extruder_count, answers,
                                     new_quality_container)
              IN  /\ registry' = r.reg
                  /\ rd' = [rd EXCEPT
                               !.has_not_supported = r.has_not_supported,
                               !.available_quality_types =
                                   answers.available_quality_types,
                               !.quality_has_been_changed = r.changed,
                               !.preferred_quality_id = r.preferred]
    /\ pc' = "read_relink"
    /\ UNCHANGED <<bundle, resolve_strategies, id_mapping, report, registry0, id_log,
                   dialog_result, inspections>>

\* self._id_mapping.get(old_id).
Mapped(map, old_id) == IF old_id \in DOMAIN map THEN map[old_id] ELSE None

\* Lines 897-911 for one user container: the stacks it names take it as
\* their user changes.
RECURSIVE RelinkUserContainer(_, _, _, _)
RelinkUserContainer(reg, container, extruder_stacks, global_stack) ==
    IF extruder_stacks # <<>>
    THEN RelinkUserContainer(
            IF container.extruder # None /\ Head(extruder_stacks) = container.extruder
            THEN ReplaceContainer(reg, Head(extruder_stacks), UserChangesSlot, container.id)
            ELSE reg,
            container, Tail(extruder_stacks), global_stack)
    ELSE IF container.machine # None /\ global_stack = container.machine
    THEN ReplaceContainer(reg, global_stack, UserChangesSlot, container.id)
    ELSE reg

RECURSIVE RelinkUserContainers(_, _, _, _)
RelinkUserContainers(reg, containers, extruder_stacks, global_stack) ==
    IF containers = <<>> THEN reg
    ELSE RelinkUserContainers(
            RelinkUserContainer(reg, Head(containers), extruder_stacks, global_stack),
            Tail(containers), extruder_stacks, global_stack)

\* Lines 913-916: the types of changes containers that are relinked.
changes_container_types(quality_has_been_changed) ==
    IF quality_has_been_changed THEN <<"definition_changes">>
    ELSE <<"quality_changes", "definition_changes">>

\* Lines 946-967: the extruder stacks whose changes container was given
\* the id of this one take this one.
RECURSIVE RelinkExtruderChanges(_, _, _, _, _)
RelinkExtruderChanges(reg, new_id, slot, extruder_stacks, map) ==
    IF extruder_stacks = <<>> THEN reg
    ELSE RelinkExtruderChanges(
            IF Mapped(map, SlotOf(reg[Head(extruder_stacks)], slot)) = new_id
            THEN ReplaceContainer(reg, Head(extruder_stacks), slot, new_id)
            ELSE reg,
            new_id, slot, Tail(extruder_stacks), map)

\* Lines 920-967 for one type: every changes container goes to the machine
\* if the machine's was given its id, else to the extruder stacks.
RECURSIVE RelinkChangesOfType(_, _, _, _, _, _)
RelinkChangesOfType(reg, containers, slot, global_stack, extruder_stacks, map) ==
    IF containers = <<>> THEN reg
    ELSE LET new_id == Head(containers).id
             reg1 == IF Mapped(map, SlotOf(reg[global_stack], slot)) = new_id
                     THEN ReplaceContainer(reg, global_stack, slot, new_id)
                     ELSE RelinkExtruderChanges(reg, new_id, slot, extruder_stacks, map)
         IN  RelinkChangesOfType(reg1, Tail(containers), slot, global_stack,
                                 extruder_stacks, map)

\* Lines 917-967 on st = [reg, raised]: a type without a strategy is a
\* KeyError; lines 926-929 and 948-951 take the slot of the type.
RECURSIVE RelinkChanges(_, _, _, _, _, _, _)
RelinkChanges(st, types, containers, global_stack, extruder_stacks, rs, map) ==
    IF types = <<>> \/ st.raised THEN st
    ELSE LET strategy == Strategy(rs, Head(types))
             st1 == IF strategy = "KeyError" THEN [st EXCEPT !.raised = TRUE]
                    ELSE IF strategy = "new"
                    THEN [st EXCEPT !.reg = RelinkChangesOfType(
                                                @, containers,
                                                IF Head(types) = "quality_changes"
                                                THEN QualityChangesSlot
                                                ELSE DefinitionChangesSlot,
                                                global_stack, extruder_stacks, map)]
                    ELSE st
         IN  RelinkChanges(st1, Tail(types), containers, global_stack, extruder_stacks,
                           rs, map)

\* Lines 978-984: old_to_new_material_dict as the sequence of its items
\* [old, new], in the order they are put in.
RECURSIVE old_to_new_material_dict(_, _)
old_to_new_material_dict(material_containers, map) ==
    IF material_containers = <<>> THEN <<>>
    ELSE LET olds == {old_id \in DOMAIN map : map[old_id] = Head(material_containers)}
             rest == old_to_new_material_dict(Tail(material_containers), map)
         IN  IF olds = {} THEN rest
             ELSE <<[old |-> CHOOSE old_id \in olds : TRUE,
                     new |-> Head(material_containers)]>> \o rest

\* A loop that takes the first old id that begins the id in the stack.
RECURSIVE FirstMatchingOldMaterialId(_, _, _)
FirstMatchingOldMaterialId(dict, old_material_id_in_stack, best) ==
    IF dict = <<>> THEN best.id
    ELSE LET old_parent_material_id == Head(dict).old
             n == Len(old_parent_material_id)
         IN  IF /\ n <= Len(old_material_id_in_stack)
                /\ old_parent_material_id = SubSeq(old_material_id_in_stack, 1, n)
             THEN old_parent_material_id
             ELSE FirstMatchingOldMaterialId(Tail(dict), old_material_id_in_stack, best)

\* Lines 1048-1058: the loop over the old ids, on best = [id, len]; an id
\* shorter than the best so far is skipped, and an id that begins the id in
\* the stack becomes the best.
RECURSIVE BestMatchingOldMaterialId(_, _, _)
BestMatchingOldMaterialId(dict, old_material_id_in_stack, best) ==
    IF dict = <<>> THEN best.id
    ELSE LET old_parent_material_id == Head(dict).old
             n == Len(old_parent_material_id)
         IN  BestMatchingOldMaterialId(
                Tail(dict), old_material_id_in_stack,
                IF n < best.len THEN best
                ELSE IF /\ n <= Len(old_material_id_in_stack)
                        /\ old_parent_material_id = SubSeq(old_material_id_in_stack, 1, n)
                THEN [id |-> old_parent_material_id, len |-> n]
                ELSE best)

\* best_matching_old_material_id = None, best_matching_old_meterial_prefix_length = -1.
NoBestMatch == [id |-> None, len |-> 0 - 1]

\* The id of the new material alone.
NewParentMaterialId(dict, best_matching_old_material_id, old_material_id_in_stack) ==
    dict[CHOOSE i \in 1..Len(dict) : dict[i].old = best_matching_old_material_id].new

\* Line 1064: the id of the new material, dict[old_id].getId(), with what
\* follows the old id in the id of the stack's material.
NewMaterialId(dict, best_matching_old_material_id, old_material_id_in_stack) ==
    dict[CHOOSE i \in 1..Len(dict) : dict[i].old = best_matching_old_material_id].new
        \o SubSeq(old_material_id_in_stack, Len(best_matching_old_material_id) + 1,
                  Len(old_material_id_in_stack))

\* _replaceStackMaterialWithNew (lines 1022-1073): the stack takes the
\* material of the derived id if the registry holds it.
replaceStackMaterialWithNew(reg, stack, dict) ==
    LET old_material_id_in_stack == SlotOf(reg[stack], MaterialSlot)
        best_matching_old_material_id ==
            BestMatchingOldMaterialId(dict, old_material_id_in_stack, NoBestMatch)
    IN  IF best_matching_old_material_id = None THEN reg
        ELSE LET new_material_id == NewMaterialId(dict, best_matching_old_material_id,
                                                  old_material_id_in_stack)
             IN  IF FoundInstance(reg, new_material_id)
                    /\ reg[new_material_id].type = "material"
                 THEN ReplaceContainer(reg, stack, MaterialSlot, new_material_id)
                 ELSE reg

RECURSIVE ReplaceMaterials(_, _, _)
ReplaceMaterials(reg, stacks, dict) ==
    IF stacks = <<>> THEN reg
    ELSE ReplaceMaterials(replaceStackMaterialWithNew(reg, Head(stacks), dict),
                          Tail(stacks), dict)

\* Lines 895-1018: the stacks take the containers that were given new ids,
\* the machine becomes the active one, the mesh reader reads the nodes and
\* read() returns them.
ReadRelink ==
    /\ pc = "read_relink"
    /\ LET reg1 == IF Strategy(resolve_strategies, "machine") = "new"
                   THEN RelinkUserContainers(registry, rd.user_instance_containers,
                                             rd.extruder_stacks, rd.global_stack)
                   ELSE registry
           st == RelinkChanges([reg |-> reg1, raised |-> FALSE],
                               changes_container_types(rd.quality_has_been_changed),
                               rd.changes_containers, rd.global_stack,
                               rd.extruder_stacks, resolve_strategies, id_mapping)
           reg2 == IF Strategy(resolve_strategies, "material") = "new"
                   THEN ReplaceMaterials(
                            st.reg, <<rd.global_stack>> \o rd.extruder_stacks,
                            old_to_new_material_dict(rd.material_containers, id_mapping))
                   ELSE st.reg
       IN  IF st.raised \/ Strategy(resolve_strategies, "material") = "KeyError"
           THEN /\ registry' = st.reg
                /\ rd' = rd
                /\ pc' = "read_raised"
           ELSE /\ registry' = reg2
                /\ rd' = [rd EXCEPT !.nodes = "nodes"]
                /\ pc' = "done"
    /\ UNCHANGED <<bundle, resolve_strategies, id_mapping, report, registry0, id_log,
                   dialog_result, inspections>>

\* ------------------------------------------------------------ scenarios

\* The largest number of material files of a project.
MaxMaterials == 1

\* The largest number of extruder stack files of a project that is imported.
MaxExtruders == 1

\* The largest number of extruder stack files of a project that is inspected.
MaxScanExtruders == 2

\* The most material files of a project that is only inspected.
MaxScanMaterials == 2

\* All sequences over S of length at most n.
SeqUpTo(S, n) == UNION {[1..k -> S] : k \in 0..n}

\* A file of the archive, by category.
DefinitionFile(id, type, bad) == [id |-> id, type |-> type, bad |-> bad]

MaterialFile(id, bad) == [id |-> id, name |-> id, content |-> 1, bad |-> bad]

InstanceFile(id, type, machine, extruder, bad) ==
    [id |-> id, type |-> type, name |-> id, content |-> 1, nsettings |-> 1,
     machine |-> machine, extruder |-> extruder, bad |-> bad,
     machine_extruder_count |-> NoCount]

StackFile(id, suffix, type, fmt, containers, position, bad) ==
    [id |-> id, suffix |-> suffix, type |-> type, name |-> id \o " name",
     fmt |-> fmt, containers |-> containers, machine |-> None,
     position |-> position, authId |-> None, authKey |-> None, bad |-> bad]

\* The containers of the stacks of the project: user, quality_changes,
\* quality, material, variant, definition_changes, definition.
MachineSlots == <<"ms_user", "qc1", "q1", "empty_material", "empty_variant", "dc1", "dm">>

ExtruderSlots == <<"es_user", "empty", "q1", "mat1_dm_aa", "aa", "empty", "de">>

\* The live stack that matches a list of ids, and one that does not.
SameSlots(ids) == [i \in 1..Len(ids) |-> OldEmptyMapped(ids[i])]

OtherSlots(ids) == [SameSlots(ids) EXCEPT ![3] = "q2"]

MaterialId(i) == "mat" \o ToString(i)

ExtruderId(i) == "es" \o ToString(i - 1)

\* The containers every registry holds.
BaseRegistry ==
    [id \in {"empty", "empty_quality", "empty_quality_changes"} |->
        [Container("instance", id, id, id, 0) EXCEPT !.readOnly = TRUE]]

\* The registry with a container more.
With(reg, c) == (c.id :> c) @@ reg

RECURSIVE WithAll(_, _)
WithAll(reg, cs) == IF cs = <<>> THEN reg ELSE WithAll(With(reg, Head(cs)), Tail(cs))

\* The live containers a scenario puts under the ids of the project's files:
\* status "absent", "same" (equal content), "differs", "readonly".
LiveMaterials(mats) ==
    [j \in 1..Len(SelectSeq(mats, LAMBDA m : m # "absent")) |->
        LET i == CHOOSE i \in 1..Len(mats) :
                    /\ mats[i] # "absent"
                    /\ Cardinality({k \in 1..i : mats[k] # "absent"}) = j
        IN  [Container("instance", "material", MaterialId(i), MaterialId(i), 0)
                EXCEPT !.readOnly = (mats[i] = "readonly")]]

LiveInstance(f, status) ==
    IF status = "same" THEN InstanceOf(f)
    ELSE [InstanceOf(f) EXCEPT !.content = 0]

LiveInstances(insts, status) ==
    IF status = "absent" THEN <<>>
    ELSE [i \in 1..Len(insts) |-> LiveInstance(insts[i], status)]

\* The extruder stack files of a scenario: file i has position i - 1; "bad"
\* names the file that fails to deserialize, or the lack of a position.
ExtruderFiles(exts, bad) ==
    [i \in 1..Len(exts) |->
        StackFile(ExtruderId(i), "extruder", "extruder_train", "section", ExtruderSlots,
                  IF bad = "position" /\ i = 1 THEN None ELSE ToString(i - 1),
                  bad = "extruder" /\ i = 1)]

\* The global stack file in a layout: the current one, the old one with six
\* ids, one with a slot more than a stack has, one without container ids.
GlobalFile(id, layout, bad) ==
    StackFile(id, "global", "machine",
              IF layout = "legacy" THEN "general" ELSE IF layout = "none" THEN "other"
              ELSE "section",
              IF layout = "legacy"
              THEN SubSeq(MachineSlots, 1, LegacyInsertIndex)
                   \o SubSeq(MachineSlots, LegacyInsertIndex + 2, Len(MachineSlots))
              ELSE IF layout = "long" THEN MachineSlots \o <<"extra">>
              ELSE MachineSlots,
              None, bad)

\* The ids a live machine has when it matches the global stack file.
LiveMachineSlots(layout) ==
    IF layout = "legacy" THEN [SameSlots(MachineSlots) EXCEPT ![LegacyInsertIndex + 1] = EmptyId]
    ELSE SameSlots(MachineSlots)

\* The live machine of a scenario, with an extruder at the position of every
\* extruder stack file whose kind is not "absent".
LiveStacks(machine, exts, layout) ==
    IF machine = "absent" THEN <<>>
    ELSE <<[Container("stack", "machine", "ms", "ms name", 0) EXCEPT
              !.containers = IF machine = "same" THEN LiveMachineSlots(layout)
                             ELSE [LiveMachineSlots(layout) EXCEPT ![3] = "q2"],
              !.authId = "live id", !.authKey = "live key",
              !.extruders = {<<ToString(i - 1), ExtruderId(i)>> :
                                i \in {k \in 1..Len(exts) : exts[k] # "absent"}}]>>
         \o [j \in 1..Len(SelectSeq(exts, LAMBDA e : e # "absent")) |->
               LET i == CHOOSE i \in 1..Len(exts) :
                           /\ exts[i] # "absent"
                           /\ Cardinality({k \in 1..i : exts[k] # "absent"}) = j
               IN  [Container("stack", "extruder_train", ExtruderId(i),
                              ExtruderId(i) \o " name", 0) EXCEPT
                       !.containers = IF exts[i] = "same" THEN SameSlots(ExtruderSlots)
                                      ELSE OtherSlots(ExtruderSlots),
                       !.machine = "ms", !.position = ToString(i - 1)]]

\* The sets of instance container files of the scenarios.
InstanceSets ==
    {<<>>,
     <<InstanceFile("ms_user", "user", "ms", None, FALSE)>>,
     <<InstanceFile("es_user", "user", None, "es0", FALSE)>>,
     <<InstanceFile("qc1", "quality_changes", "ms", None, FALSE)>>,
     <<InstanceFile("dc1", "definition_changes", None, None, FALSE)>>,
     <<InstanceFile("q1", "quality", None, None, FALSE),
       InstanceFile("aa", "variant", None, None, FALSE)>>,
     <<InstanceFile("qc1", "quality_changes", "ms", "es0", FALSE),
       InstanceFile("dc1", "definition_changes", None, None, FALSE)>>}

\* The headings of a scenario, with the values of the plainest project: one
\* machine definition, one global stack, nothing of it live.
PlainProject ==
    [defs |-> <<DefinitionFile("dm", "machine", FALSE)>>, def_live |-> FALSE,
     mats |-> <<>>, insts |-> <<>>, inst_status |-> "absent",
     machine |-> "absent", exts |-> <<>>, layout |-> "current",
     globals |-> 1, prefs |-> TRUE, bad |-> "none"]

\* A scenario: what the project holds and what the registry holds under the
\* same ids.
Scenario(sc) ==
    [bundle |->
        [defs |-> sc.defs,
         mats |-> [i \in 1..Len(sc.mats) |->
                      MaterialFile(MaterialId(i), sc.bad = "material" /\ i = 1)],
         insts |-> [i \in 1..Len(sc.insts) |->
                      [sc.insts[i] EXCEPT !.bad = (sc.bad = "instance" /\ i = 1)]],
         stacks |-> (IF sc.globals >= 1
                     THEN <<GlobalFile("ms", sc.layout, sc.bad = "machine")>> ELSE <<>>)
                    \o ExtruderFiles(sc.exts, sc.bad)
                    \o (IF sc.globals >= 2
                        THEN <<[GlobalFile("ms2", sc.layout, FALSE) EXCEPT
                                   !.suffix = "stack"]>>
                        ELSE <<>>),
         has_preferences |-> sc.prefs],
     registry |->
        WithAll(BaseRegistry,
                [i \in 1..(IF sc.def_live THEN Len(sc.defs) ELSE 0) |->
                    Container("definition", sc.defs[i].type, sc.defs[i].id,
                              sc.defs[i].id, 0)]
                \o LiveMaterials(sc.mats) \o LiveInstances(sc.insts, sc.inst_status)
                \o LiveStacks(sc.machine, sc.exts, sc.layout))]

\* What a scenario may hold under the heading of the stacks: a live machine
\* comes with its definition, and live extruders come with a live machine.
MachineConfigs(max_exts) ==
    {sc \in {[PlainProject EXCEPT !.machine = machine, !.exts = exts,
                                  !.def_live = def_live] :
                machine \in {"absent", "same", "differs"},
                exts \in SeqUpTo({"absent", "same", "differs"}, max_exts),
                def_live \in BOOLEAN} :
        IF sc.machine = "absent" THEN \A i \in 1..Len(sc.exts) : sc.exts[i] = "absent"
        ELSE sc.def_live}

\* The scenarios of the import: the materials vary with few instance
\* containers, and the instance containers vary with no material.
Scenarios ==
    UNION {
        {Scenario([mc EXCEPT !.mats = mats, !.insts = insts, !.inst_status = "differs",
                             !.bad = bad]) :
            mats \in SeqUpTo({"absent", "same", "readonly"}, MaxMaterials),
            insts \in {<<>>, <<InstanceFile("qc1", "quality_changes", "ms", None, FALSE)>>},
            bad \in {"none", "machine", "material", "extruder"}}
        \cup
        {Scenario([mc EXCEPT !.insts = insts, !.inst_status = inst_status, !.bad = bad]) :
            insts \in InstanceSets,
            inst_status \in {"absent", "same", "differs"},
            bad \in {"none", "machine"}}
        : mc \in MachineConfigs(MaxExtruders)}

\* How much authentication data a stack or a stack file carries: none, the
\* id, the id and the key.
AuthValues == {<<FALSE, FALSE>>, <<TRUE, FALSE>>, <<TRUE, TRUE>>}

\* A scenario with authentication data in the global stack file and in the
\* live machine.
WithAuth(sc, file_auth, live_auth) ==
    [bundle |-> [sc.bundle EXCEPT
                    !.stacks[1].authId = IF file_auth[1] THEN "file id" ELSE None,
                    !.stacks[1].authKey = IF file_auth[2] THEN "file key" ELSE None],
     registry |-> [sc.registry EXCEPT
                    !["ms"].authId = IF live_auth[1] THEN "live id" ELSE None,
                    !["ms"].authKey = IF live_auth[2] THEN "live key" ELSE None]]

\* The scenarios of a live machine that matches the project's, with and
\* without authentication data on either side.
AuthScenarios ==
    {WithAuth(Scenario([PlainProject EXCEPT !.machine = "same", !.def_live = TRUE]),
              file_auth, live_auth) :
        file_auth \in AuthValues, live_auth \in AuthValues}

\* The scenarios of the inspection: the stacks vary in number, layout and
\* position; the definitions vary in number and type; the materials and the
\* instance containers vary together; a project lacks what it must hold.
InspectScenarios ==
    {Scenario([mc EXCEPT !.layout = layout, !.bad = bad]) :
        mc \in MachineConfigs(MaxScanExtruders),
        layout \in {"current", "legacy", "long", "none"},
        bad \in {"none", "position"}}
    \cup
    {Scenario([PlainProject EXCEPT !.defs = defs, !.def_live = def_live,
                                   !.machine = machine]) :
        defs \in {<<>>,
                  <<DefinitionFile("de", "extruder", FALSE)>>,
                  <<DefinitionFile("dm", "machine", TRUE)>>,
                  <<DefinitionFile("dm", "machine", FALSE),
                    DefinitionFile("de", "extruder", FALSE)>>,
                  <<DefinitionFile("dx", "other", FALSE)>>,
                  <<DefinitionFile("dm", "machine", FALSE),
                    DefinitionFile("dx", "other", FALSE)>>,
                  <<DefinitionFile("dm", "machine", FALSE),
                    DefinitionFile("dm2", "machine", FALSE)>>},
        def_live \in BOOLEAN,
        machine \in {"absent", "same"}}
    \cup
    {Scenario([PlainProject EXCEPT !.mats = mats, !.insts = insts,
                                   !.inst_status = inst_status, !.machine = machine,
                                   !.def_live = (machine # "absent")]) :
        mats \in SeqUpTo({"absent", "same", "readonly"}, MaxMaterials),
        insts \in InstanceSets,
        inst_status \in {"absent", "same", "differs"},
        machine \in {"absent", "differs"}}
    \cup
    {Scenario([PlainProject EXCEPT !.globals = globals, !.prefs = prefs, !.bad = bad,
                                   !.insts = <<InstanceFile("qc1", "quality_changes",
                                                            "ms", None, FALSE)>>]) :
        globals \in 0..2, prefs \in BOOLEAN, bad \in {"none", "instance"}}
    \cup
    {Scenario([PlainProject EXCEPT !.mats = mats]) :
        mats \in [1..MaxScanMaterials -> {"absent", "same", "readonly"}]}

\* The scenarios of the identity remapper: what makes read() mint ids.
IdScenarios ==
    {Scenario([mc EXCEPT !.mats = mats, !.insts = insts, !.inst_status = "differs",
                         !.bad = bad]) :
        mc \in {c \in MachineConfigs(MaxExtruders) :
                   c.machine # "differs" /\ \A i \in 1..Len(c.exts) : c.exts[i] = "same"},
        mats \in {<<>>, <<"same">>},
        insts \in {<<>>, <<InstanceFile("qc1", "quality_changes", "ms", None, FALSE)>>},
        bad \in {"none", "machine"}}

\* The most extruder stack files of a project whose stacks are repaired.
MaxRepairExtruders == 2

\* A scenario whose last extruder stack file holds a quality, and whose
\* registry may hold three quality profiles and a derived material beside
\* the containers under the ids of the project.
WithRepairData(sc, quality, profiles) ==
    [bundle |-> [sc.bundle EXCEPT
                    !.stacks[Len(sc.bundle.stacks)].containers[QualitySlot] = quality],
     registry |->
        IF profiles
        THEN WithAll(sc.registry,
                     <<Container("instance", "quality", "qp", "qp", 0),
                       Container("instance", "quality", "q1", "q1", 0),
                       Container("instance", "quality", "q1_dm", "q1_dm", 0),
                       Container("instance", "material", "mat1 #2_dm_aa",
                                 "mat1 #2_dm_aa", 0)>>)
        ELSE sc.registry]

\* The scenarios of the repair: one or two extruder stack files, a
\* definition_changes file with or without machine_extruder_count, a
\* material or none, the machine live or not.
RepairScenarios ==
    {WithRepairData(
        Scenario([PlainProject EXCEPT
            !.machine = machine, !.def_live = (machine # "absent"),
            !.exts = [i \in 1..n |-> machine],
            !.mats = mats,
            !.insts = <<[InstanceFile("dc1", "definition_changes", None, None, FALSE)
                            EXCEPT !.machine_extruder_count = count]>>,
            !.inst_status = IF machine = "absent" THEN "absent" ELSE "differs"]),
        quality, profiles) :
        machine \in {"absent", "same"},
        n \in 1..MaxRepairExtruders,
        mats \in {<<>>, <<"same">>},
        count \in {NoCount, <<1>>, <<2>>},
        quality \in {"q1", "empty_quality"},
        profiles \in BOOLEAN}

\* The values a strategy of the dialog's result may have.
StrategyValues == {None, "new", "override"}

\* WorkspaceDialog.getResult(): {} when the dialog was cancelled, else a
\* strategy for every category. The decision source decides the categories
\* the project holds and leaves the others None.
DialogResults(b) ==
    LET holds(type) == \E i \in 1..Len(b.insts) : b.insts[i].type = type IN
    {EmptyMap} \cup
    {[machine |-> machine, material |-> material, quality_changes |-> quality_changes,
      definition_changes |-> definition_changes] :
        machine \in StrategyValues \cup {"keep"},
        material \in IF b.mats = <<>> THEN {None} ELSE StrategyValues,
        quality_changes \in IF holds("quality_changes") THEN StrategyValues ELSE {None},
        definition_changes \in IF holds("definition_changes") THEN StrategyValues
                               ELSE {None}}

\* ------------------------------------------------------------ behaviour

\* The state after construction (lines 39-65), for a project and a registry.
InitOf(scenarios) ==
    /\ \E sc \in scenarios : bundle = sc.bundle /\ registry = sc.registry
    /\ resolve_strategies = EmptyMap
    /\ id_mapping = EmptyMap
    /\ report = NoReport
    /\ pc = "idle"
    /\ rd = NoLocals
    /\ registry0 = registry
    /\ id_log = EmptyMap
    /\ dialog_result = NoDecision
    /\ inspections = 0

Init == InitOf(Scenarios \cup AuthScenarios)

PreRead ==
    \/ \E show_dialog \in BOOLEAN, mesh_accepts \in BOOLEAN :
          PreReadInspect(show_dialog, mesh_accepts)
    \/ \E result \in DialogResults(bundle) : PreReadDialogClosed(result)

Read ==
    \/ ReadStart
    \/ ReadDefinitions
    \/ ReadMaterials
    \/ ReadInstances
    \/ ReadCommit
    \/ ReadGlobalStack
    \/ ReadExtruderStacks
    \/ \E answers \in RepairAnswers : ReadRepair(answers)
    \/ ReadRelink

Next == PreRead \/ Read

Spec == Init /\ [][Next]_vars

\* The inspection alone, over the projects an inspection tells apart.
InitInspect == InitOf(InspectScenarios)

NextInspect == PreRead

SpecInspect == InitInspect /\ [][NextInspect]_vars

\* The import with a caller of getNewId beside it.
InitIds == InitOf(IdScenarios)

NextIds == PreRead \/ Read \/ \E old_id \in CalledIds : GetNewIdCall(old_id)

SpecIds == InitIds /\ [][NextIds]_vars

\* The most old material ids of an old_to_new_material_dict.
MaxParents == 3

\* The dicts of at most MaxParents old ids of materials, in every order of
\* their items; the new id of a material is the first free "<id> #<n>".
MaterialDicts ==
    {[i \in DOMAIN olds |-> [old |-> olds[i], new |-> olds[i] \o " #2"]] :
        olds \in {q \in SeqUpTo({"PLA", "PLA Premium", "PL", "ABS"}, MaxParents) :
                    \A i, j \in DOMAIN q : i # j => q[i] # q[j]}}

\* The ids of the material a stack may hold.
StackMaterialIds ==
    {"PLA Premium_um3_aa04", "PLA_um3_aa04", "PLA", "ABS_x", "PETG", "empty_material"}

\* Containers under ids a new material id may be derived to; one of them
\* is no material.
DerivedContainers ==
    <<Container("instance", "material", "PLA Premium #2_um3_aa04", "m1", 0),
      Container("instance", "quality", "PLA #2_um3_aa04", "m2", 0),
      Container("instance", "material", "PLA #2", "m3", 0)>>

\* Serialized stacks that list a container id less than the old layout, as
\* many, or one more, in the [containers] section or under general/containers,
\* where an entry may be empty.
SerializedStacks ==
    {StackFile("ms", "global", "machine", fmt, containers, None, FALSE) :
        fmt \in {"section", "general"},
        containers \in UNION {[1..n -> {"a", "b", ""}] :
                                 n \in (LegacySlotCount - 1)..(LegacySlotCount + 1)}}

\* The two helper methods, each called once on an input of its own: a
\* serialized stack, or a dict with the stack es0 that holds a material.
InitFunctions ==
    /\ resolve_strategies = EmptyMap
    /\ id_mapping = EmptyMap
    /\ report = NoReport
    /\ id_log = EmptyMap
    /\ dialog_result = NoDecision
    /\ inspections = 0
    /\ \/ \E f \in SerializedStacks :
             /\ bundle = [stacks |-> <<f>>]
             /\ registry = BaseRegistry
             /\ rd = [container_ids |-> <<>>]
             /\ pc = "ids_call"
       \/ \E dict \in MaterialDicts, material \in StackMaterialIds,
               held \in SUBSET {DerivedContainers[i].id : i \in DOMAIN DerivedContainers} :
             /\ bundle = [stacks |-> <<>>]
             /\ registry = With(WithAll(BaseRegistry,
                                        SelectSeq(DerivedContainers,
                                                  LAMBDA c : c.id \in held)),
                                [Container("stack", "extruder_train", "es0",
                                           "es0 name", 0) EXCEPT
                                    !.containers = [ExtruderSlots EXCEPT
                                                       ![MaterialSlot] = material]])
             /\ rd = [dict |-> dict, best |-> None]
             /\ pc = "material_call"
    /\ registry0 = registry

\* A call of _getContainerIdListFromSerialized (lines 1084-1103).
GetContainerIdListCall ==
    /\ pc = "ids_call"
    /\ rd' = [container_ids |-> getContainerIdListFromSerialized(bundle.stacks[1])]
    /\ pc' = "ids_returned"
    /\ UNCHANGED <<bundle, registry, resolve_strategies, id_mapping, report, registry0,
                   id_log, dialog_result, inspections>>

\* A call of _replaceStackMaterialWithNew (lines 1022-1073) on the stack.
ReplaceStackMaterialCall ==
    /\ pc = "material_call"
    /\ registry' = replaceStackMaterialWithNew(registry, "es0", rd.dict)
    /\ rd' = [rd EXCEPT !.best = BestMatchingOldMaterialId(
                                     rd.dict, SlotOf(registry["es0"], MaterialSlot),
                                     NoBestMatch)]
    /\ pc' = "material_returned"
    /\ UNCHANGED <<bundle, resolve_strategies, id_mapping, report, registry0, id_log,
                   dialog_result, inspections>>

NextFunctions == GetContainerIdListCall \/ ReplaceStackMaterialCall

SpecFunctions == InitFunctions /\ [][NextFunctions]_vars

\* The import of the projects whose stacks the repair tells apart.
SpecRepair == InitOf(RepairScenarios) /\ [][Next]_vars

\* ------------------------------------------------------------ properties

\* C1. Rollback atomicity: when read() has failed and its rollback has run,
\* the registry holds no container that this read() added: every id of the
\* registry was there when read() was entered.
C1_RollbackAtomicity ==
    pc = "rolled_back" => DOMAIN registry \subseteq DOMAIN registry0

\* C2. No exception raised by the steps of read() - the definitions, the
\* materials, the instance containers, the commit, the stacks - leaves read()
\* without the rollback: read() never ends by an exception of its steps.
C2_ExceptionsRollBack ==
    pc = "read_raised" => rd = NoLocals

\* C3. When read() has failed and rolled back, the registry is as it was
\* before: every container that was live when read() was entered is still
\* there with the content it had.
C3_RegistryRestored ==
    pc = "rolled_back" =>
        \A id \in DOMAIN registry0 : id \in DOMAIN registry /\ registry[id] = registry0[id]

\* A step that enters read() and reaches line 435.
MergeStarts == pc = "accepted" /\ pc' \notin CallerStates \cup {"dialog"}

\* A step by which read() returns, completed or rolled back.
MergeEnds == pc \in ReadStates /\ pc' \in {"done", "rolled_back"}

\* C4. Identity remapper stability: until the next read() empties the map, a
\* mapping once made stays as the first call made it, whatever getNewId
\* calls and registry additions follow, and the registry is asked for a
\* unique name for an old id on the first call only.
C4_StableNewId ==
    [][~MergeStarts =>
         \A old_id \in DOMAIN id_mapping :
            /\ old_id \in DOMAIN id_mapping'
            /\ id_mapping'[old_id] = id_mapping[old_id]
            /\ Logged(id_log', old_id).asks = Logged(id_log, old_id).asks]_vars

\* C4 witness: getNewId was called again for an old id after the registry
\* had come to hold the id minted first, so that a fresh name would differ.
C4_Witness ==
    \E old_id \in DOMAIN id_mapping :
        /\ Logged(id_log, old_id).calls >= 2
        /\ Logged(id_log, old_id).asks = 1
        /\ id_mapping[old_id] \in DOMAIN registry
        /\ uniqueName(registry, old_id) # id_mapping[old_id]

\* C5 as stated: the map is discarded when read() completes or rolls back, so
\* that it is empty once read() has returned.
C5_MapDiscarded ==
    [][MergeEnds => id_mapping' = EmptyMap]_vars

\* C5. The map is emptied when read() starts and not when it ends: while
\* read() runs, every mapping of the map was minted by this read(), the
\* registry having been asked for it since the start; and the step by which
\* read() returns leaves the map as it is.
C5_MapEmptiedAtStart ==
    /\ [](pc \in ReadStates =>
            \A old_id \in DOMAIN id_mapping : Logged(id_log, old_id).asks >= 1)
    /\ [][MergeEnds => id_mapping' = id_mapping]_vars

\* C5 witness: read() runs, the map held a mapping when read() was entered,
\* and that mapping is gone.
C5_Witness ==
    /\ pc \in ReadStates
    /\ \E old_id \in DOMAIN rd.id_mapping0 : old_id \notin DOMAIN id_mapping
    /\ id_mapping # EmptyMap

\* Whether a live container carries the id of a container of the project, by
\* category.
LiveFound(key) ==
    CASE key = "machine" ->
            \E i \in DOMAIN registry :
                registry[i].cls = "stack" /\ i = GlobalStackFile(bundle).id
      [] key = "material" ->
            \E i \in 1..Len(bundle.mats) : bundle.mats[i].id \in DOMAIN registry
      [] key = "quality_changes" ->
            \E i \in 1..Len(bundle.insts) :
                /\ bundle.insts[i].type = "quality_changes"
                /\ bundle.insts[i].id \in DOMAIN registry
                /\ registry[bundle.insts[i].id].cls = "instance"

\* The default of the resolution policy for a category.
PolicyDefault(key) == IF LiveFound(key) THEN "override" ELSE "new"

\* C6. Resolution policy: when the inspection was accepted on a result of the
\* dialog, the strategy of each of machine, material and quality_changes is
\* the result's when the result sets it, and else "override" if a live
\* container with the imported id exists and "new" if none does.
C6_ResolutionPolicy ==
    (pc = "accepted" /\ dialog_result.decided) =>
        \A key \in resolve_strategy_keys :
            resolve_strategies[key] =
                IF dialog_result.result[key] # None THEN dialog_result.result[key]
                ELSE PolicyDefault(key)

\* C6 witness: an accepted result that sets one category and leaves another
\* unset for which a live container exists.
C6_Witness ==
    /\ pc = "accepted" /\ dialog_result.decided
    /\ \E key \in resolve_strategy_keys :
          dialog_result.result[key] = None /\ resolve_strategies[key] = "override"
    /\ \E key \in resolve_strategy_keys : dialog_result.result[key] = "new"

\* C7 as stated: when the inspection was accepted without any result of the
\* dialog, every category has the default of the policy when read() starts.
C7_DefaultsWithoutDecision ==
    (pc = "accepted" /\ ~dialog_result.decided) =>
        \A key \in resolve_strategy_keys : resolve_strategies[key] = PolicyDefault(key)

\* C7. When the inspection was accepted without showing the dialog, no
\* default is applied: when read() starts, the strategy of each of machine,
\* material and quality_changes is None.
C7_UnsetWithoutDecision ==
    (pc = "accepted" /\ ~dialog_result.decided) =>
        \A key \in resolve_strategy_keys : resolve_strategies[key] = None

\* C7 witness: accepted without the dialog although a live machine exists,
\* for which the policy's default would be "override".
C7_Witness ==
    pc = "accepted" /\ ~dialog_result.decided /\ LiveFound("machine")

\* C8. The inspection is read-only: no step of preRead, whatever its outcome,
\* adds, removes or changes a container of the registry.
C8_InspectionReadOnly ==
    [][registry' = registry]_vars

\* C8 witness: an inspection has run to its end over a project whose
\* definition is not live and was deserialized, with a live material found.
C8_Witness ==
    /\ pc \in {"accepted", "cancelled"} /\ dialog_result.decided
    /\ \E i \in 1..Len(bundle.defs) : bundle.defs[i].id \notin DOMAIN registry
    /\ LiveFound("material")

SlotsDiffer(f, live) ==
    LET id_list == getContainerIdListFromSerialized(f) IN
    \E i \in 1..Len(id_list) :
        i <= Len(live.containers) /\ live.containers[i] # OldEmptyMapped(id_list[i])

\* Whether an extruder stack file whose position the live machine has differs
\* from the live extruder at that position.
ExtruderDiffers(f, machine) ==
    /\ HasExtruderAt(machine, f.position)
    /\ SlotsDiffer(f, registry[ExtruderAt(machine, f.position)])

\* Whether a mismatch exists anywhere: in the machine stack or, if it
\* matches, in an extruder stack whose position exists in the live machine.
MismatchAnywhere ==
    LET g == GlobalStackFile(bundle)
        files == ExtruderStackFiles(bundle)
    IN  \/ SlotsDiffer(g, registry[g.id])
        \/ \E i \in 1..Len(files) : ExtruderDiffers(files[i], registry[g.id])

\* C10 as stated: with a live machine of the imported id, machine_conflict is
\* true whenever a mismatch exists anywhere.
C10_AnyMismatchConflicts ==
    (pc = "dialog" /\ LiveFound("machine")) =>
        (MismatchAnywhere => report.machine_conflict)

\* C10. With a live machine of the imported id, machine_conflict is true
\* whenever the machine stack mismatches, or the machine stack matches, the
\* position of every imported extruder stack exists in the live machine, and
\* an extruder stack mismatches.
C10_MismatchConflicts ==
    (pc = "dialog" /\ LiveFound("machine")) =>
        LET g == GlobalStackFile(bundle)
            files == ExtruderStackFiles(bundle)
        IN  (\/ SlotsDiffer(g, registry[g.id])
             \/ /\ \A i \in 1..Len(files) : HasExtruderAt(registry[g.id], files[i].position)
                /\ \E i \in 1..Len(files) : ExtruderDiffers(files[i], registry[g.id]))
            => report.machine_conflict

\* C10 witness: the machine stack matches, every position exists, an extruder
\* stack mismatches, and the report has the flag.
C10_Witness ==
    /\ pc = "dialog" /\ LiveFound("machine")
    /\ ~SlotsDiffer(GlobalStackFile(bundle), registry[GlobalStackFile(bundle).id])
    /\ \E i \in 1..Len(ExtruderStackFiles(bundle)) :
          ExtruderDiffers(ExtruderStackFiles(bundle)[i], registry[GlobalStackFile(bundle).id])
    /\ report.machine_conflict

\* Whether every slot of a serialized stack exists in the live stack and holds
\* the same id, the old empty ids read as "empty".
StackMatches(f, live) ==
    /\ Len(getContainerIdListFromSerialized(f)) <= Len(live.containers)
    /\ ~SlotsDiffer(f, live)

\* Whether the i-th extruder stack file is the first whose position the live
\* machine lacks, every file before it carrying a position and no more slots
\* than the live extruder at that position.
FirstAbsentPosition(files, machine, i) ==
    /\ files[i].position # None
    /\ ~HasExtruderAt(machine, files[i].position)
    /\ \A j \in 1..(i - 1) :
          /\ files[j].position # None
          /\ HasExtruderAt(machine, files[j].position)
          /\ Len(getContainerIdListFromSerialized(files[j]))
                <= Len(registry[ExtruderAt(machine, files[j].position)].containers)

\* The project's files load, its machine stack matches the live machine of
\* its id, and an extruder stack of the project sits at a position that the
\* live machine lacks.
MatchingMachineLacksPosition ==
    /\ ~StackFilesRaise(bundle)
    /\ ~DefinitionsRaise(bundle, registry) /\ ~InstancesRaise(bundle)
    /\ LiveFound("machine")
    /\ StackMatches(GlobalStackFile(bundle), registry[GlobalStackFile(bundle).id])
    /\ \E i \in 1..Len(ExtruderStackFiles(bundle)) :
          FirstAbsentPosition(ExtruderStackFiles(bundle),
                              registry[GlobalStackFile(bundle).id], i)

\* C11. When the live machine stack matches the imported machine stack and
\* the project has an extruder stack whose position the live machine lacks,
\* the inspection does not raise, and the report it hands to the dialog has
\* machine_conflict false.
C11_AbsentPositionNoConflict ==
    MatchingMachineLacksPosition =>
        /\ pc # "raised"
        /\ pc = "dialog" => report.machine_conflict = FALSE

\* C11 witness: the dialog has the report of such a project, in which an
\* extruder stack before the one at the absent position differs from the live
\* extruder at its position.
C11_Witness ==
    /\ pc = "dialog" /\ MatchingMachineLacksPosition
    /\ \E i \in 1..Len(ExtruderStackFiles(bundle)) :
          ExtruderDiffers(ExtruderStackFiles(bundle)[i], registry[GlobalStackFile(bundle).id])
    /\ report.machine_conflict = FALSE

\* C12. When the live machine stack matches the imported one, the project has
\* an extruder stack at a position the live machine lacks, and the result of
\* the dialog leaves the machine strategy unset, read() starts with the
\* machine strategy "new".
C12_AbsentPositionCreatesNew ==
    (/\ pc = "accepted" /\ dialog_result.decided
     /\ dialog_result.result["machine"] = None
     /\ MatchingMachineLacksPosition)
        => resolve_strategies["machine"] = "new"

\* C13. The report's material_conflict is true if and only if some material
\* of the project has the id of a live container that is not read-only; a
\* project whose live materials are all read-only reports no conflict.
C13_MaterialConflict ==
    pc = "dialog" =>
        (report.material_conflict <=>
            \E i \in 1..Len(bundle.mats) :
                /\ bundle.mats[i].id \in DOMAIN registry
                /\ ~registry[bundle.mats[i].id].readOnly)

\* C13 witness: the report of a project with two materials, both live and
\* read-only, has the flag false.
C13_Witness ==
    /\ pc = "dialog" /\ Len(bundle.mats) = 2
    /\ \A i \in 1..Len(bundle.mats) :
          bundle.mats[i].id \in DOMAIN registry /\ registry[bundle.mats[i].id].readOnly
    /\ report.material_conflict = FALSE

\* Whether a live instance container has the id of an instance container
\* file and differs from it in type, name, settings or linkage.
LiveDiffers(f) ==
    /\ f.id \in DOMAIN registry
    /\ registry[f.id].cls = "instance"
    /\ \/ registry[f.id].type # f.type
       \/ registry[f.id].name # f.name
       \/ registry[f.id].content # f.content
       \/ registry[f.id].nsettings # f.nsettings
       \/ registry[f.id].machine # f.machine
       \/ registry[f.id].extruder # f.extruder

\* C14. The report's conflict flag of quality_changes, and that of
\* definition_changes, is true if and only if some instance container of the
\* project of that type has the id of a live instance container whose content
\* differs from it; the same id with equal content, or no live container of
\* the id, is no conflict.
C14_ChangesConflict ==
    pc = "dialog" =>
        /\ report.quality_changes_conflict <=>
              \E i \in 1..Len(bundle.insts) :
                  bundle.insts[i].type = "quality_changes" /\ LiveDiffers(bundle.insts[i])
        /\ report.definition_changes_conflict <=>
              \E i \in 1..Len(bundle.insts) :
                  bundle.insts[i].type = "definition_changes" /\ LiveDiffers(bundle.insts[i])

\* C14 witness: the project has a quality_changes and a definition_changes
\* container, both live with equal content, and neither flag is set.
C14_Witness ==
    /\ pc = "dialog"
    /\ \A type \in {"quality_changes", "definition_changes"} :
          \E i \in 1..Len(bundle.insts) :
              /\ bundle.insts[i].type = type
              /\ bundle.insts[i].id \in DOMAIN registry
              /\ ~LiveDiffers(bundle.insts[i])
    /\ ~report.quality_changes_conflict /\ ~report.definition_changes_conflict

\* The instance container files of the project of an ignored type.
IgnoredFiles ==
    {bundle.insts[i] : i \in {k \in 1..Len(bundle.insts) :
                                bundle.insts[k].type \in {"quality", "variant"}}}

\* C15. Instance containers of type quality or variant are never imported: no
\* step of preRead or read(), under any strategies, adds a container under the
\* id of such a file or changes the live container of that id, and a report
\* of a project whose instance containers are all of these types has neither
\* the quality_changes nor the definition_changes conflict flag.
C15_QualityVariantIgnored ==
    /\ [][\A f \in IgnoredFiles :
             /\ f.id \in DOMAIN registry' <=> f.id \in DOMAIN registry
             /\ f.id \in DOMAIN registry => registry'[f.id] = registry[f.id]]_vars
    /\ []((pc = "dialog" /\ \A i \in 1..Len(bundle.insts) : bundle.insts[i] \in IgnoredFiles)
            => (~report.quality_changes_conflict /\ ~report.definition_changes_conflict))

\* C15 witness: read() has returned for a project with a quality and a variant
\* file of which nothing is in the registry.
C15_Witness ==
    /\ pc = "done"
    /\ \E f \in IgnoredFiles : f.type = "quality" /\ f.id \notin DOMAIN registry
    /\ \E f \in IgnoredFiles : f.type = "variant" /\ f.id \notin DOMAIN registry

\* The number of definition files of the project of type machine.
MachineDefinitions ==
    Cardinality({i \in 1..Len(bundle.defs) : bundle.defs[i].type = "machine"})

\* C16. When the number of machine definitions among the definition files of
\* the project is not exactly one, extruder definitions and definitions of
\* an unknown type not counted, an inspection that looks at the project
\* raises, and no report is ever handed to the dialog.
C16_OneMachineDefinition ==
    /\ [](MachineDefinitions # 1 =>
            (pc \in {"idle", "failed", "raised"} /\ report = NoReport))
    /\ [][(MachineDefinitions # 1 /\ resolve_strategies' # resolve_strategies)
              => pc' = "raised"]_vars

\* C16 witness: the inspection raised for a project whose definition files all
\* load and none of which is a machine definition.
C16_Witness ==
    /\ pc = "raised" /\ report = NoReport
    /\ bundle.defs # <<>> /\ MachineDefinitions = 0
    /\ \A i \in 1..Len(bundle.defs) : ~bundle.defs[i].bad
    /\ \E i \in 1..Len(bundle.defs) : bundle.defs[i].type = "extruder"

\* Whether the registry holds, under an id, the material a file deserializes
\* to, added by this read().
AddedMaterial(id, f) ==
    /\ id \in DOMAIN registry /\ id \notin DOMAIN registry0
    /\ registry[id].type = "material"
    /\ registry[id].content = f.content /\ registry[id].name = f.name

\* read() has committed its pending containers with the material strategy
\* "new".
MaterialsCommittedAsNew ==
    /\ pc = "read_global_stack"
    /\ "material" \in DOMAIN resolve_strategies
    /\ resolve_strategies["material"] = "new"

\* C17 as stated: with the material strategy "new", every material of the
\* project is added under a newly minted id, also when no live container has
\* its original id.
C17_EveryMaterialMinted ==
    MaterialsCommittedAsNew =>
        \A i \in 1..Len(bundle.mats) :
            /\ bundle.mats[i].id \in DOMAIN id_mapping
            /\ AddedMaterial(id_mapping[bundle.mats[i].id], bundle.mats[i])

\* C17. With the material strategy "new", a material of the project whose id
\* a live container that is not read-only has is added under a newly minted
\* id and the live container is left as it was; a material whose id no live
\* container has is added under its original id and no id is minted for it;
\* a material whose live container is read-only is not added.
C17_CollidingMaterialMinted ==
    MaterialsCommittedAsNew =>
        \A i \in 1..Len(bundle.mats) :
            LET f == bundle.mats[i] IN
            IF f.id \notin DOMAIN registry0
            THEN AddedMaterial(f.id, f) /\ f.id \notin DOMAIN id_mapping
            ELSE /\ registry[f.id] = registry0[f.id]
                 /\ IF registry0[f.id].readOnly
                    THEN f.id \notin DOMAIN id_mapping
                    ELSE /\ f.id \in DOMAIN id_mapping
                         /\ id_mapping[f.id] # f.id
                         /\ AddedMaterial(id_mapping[f.id], f)

\* C17 witness: the commit has added a material under a minted id beside the
\* live material of its original id.
C17_Witness ==
    /\ MaterialsCommittedAsNew
    /\ \E i \in 1..Len(bundle.mats) :
          /\ bundle.mats[i].id \in DOMAIN registry0
          /\ bundle.mats[i].id \in DOMAIN id_mapping
          /\ AddedMaterial(id_mapping[bundle.mats[i].id], bundle.mats[i])

\* The user container files of the project whose id a live instance container
\* had when read() started.
CollidingUserFiles ==
    {bundle.insts[i] : i \in {k \in 1..Len(bundle.insts) :
                                /\ bundle.insts[k].type = "user"
                                /\ bundle.insts[k].id \in DOMAIN registry0
                                /\ registry0[bundle.insts[k].id].cls = "instance"}}

\* C18. When a user container of the project collides with a live container
\* and the machine strategy is "new", read() gets past the instance
\* containers, and the container it queues for the file is one, has the
\* file's id, and names the new machine or the new extruder stack.
C18_UserProfileRelinked ==
    [][(/\ pc = "read_instances"
        /\ "machine" \in DOMAIN resolve_strategies
        /\ resolve_strategies["machine"] = "new"
        /\ CollidingUserFiles # {})
          => /\ pc' = "read_commit"
             /\ \A f \in CollidingUserFiles :
                   /\ Cardinality({i \in 1..Len(rd'.containers_to_add) :
                                     rd'.containers_to_add[i].id = f.id}) = 1
                   /\ \A i \in 1..Len(rd'.containers_to_add) :
                         rd'.containers_to_add[i].id = f.id =>
                            /\ f.machine # None =>
                                  rd'.containers_to_add[i].machine = rd.global_stack_id_new
                            /\ f.extruder # None =>
                                  rd'.containers_to_add[i].extruder
                                      = rd.extruder_stack_id_map[f.extruder]]_vars

\* The quality_changes and definition_changes files of the project whose id a
\* live instance container had when read() started and whose strategy is
\* "new".
CollidingChangesAsNew ==
    {bundle.insts[i] : i \in {k \in 1..Len(bundle.insts) :
        /\ bundle.insts[k].type \in {"quality_changes", "definition_changes"}
        /\ bundle.insts[k].id \in DOMAIN registry0
        /\ registry0[bundle.insts[k].id].cls = "instance"
        /\ bundle.insts[k].type \in DOMAIN resolve_strategies
        /\ resolve_strategies[bundle.insts[k].type] = "new"}}

\* Whether an id is that of a stack this read() added.
CreatedStack(id) ==
    id \in DOMAIN registry /\ id \notin DOMAIN registry0 /\ registry[id].cls = "stack"

\* C19. When read() has returned, a quality_changes or definition_changes
\* container of the project that collided with a live container under the
\* strategy "new" is in the registry under a newly minted id other than the
\* live one; if the machine strategy is "new" too, the machine it names is
\* the machine stack this read() created, and the extruder it names, when the
\* project has a stack file for it, is the extruder stack this read() created
\* for that file.
C19_ChangesProfileAsNew ==
    pc = "done" =>
        \A f \in CollidingChangesAsNew :
            /\ f.id \in DOMAIN id_mapping
            /\ LET new_id == id_mapping[f.id] IN
               /\ new_id # f.id
               /\ new_id \in DOMAIN registry /\ new_id \notin DOMAIN registry0
               /\ registry[new_id].type = f.type
               /\ registry[new_id].content = f.content
               /\ resolve_strategies["machine"] = "new" =>
                     /\ f.machine # None =>
                           /\ registry[new_id].machine = rd.global_stack_id_new
                           /\ CreatedStack(registry[new_id].machine)
                     /\ (/\ f.extruder # None
                         /\ \E i \in 1..Len(ExtruderStackFiles(bundle)) :
                               ExtruderStackFiles(bundle)[i].id = f.extruder) =>
                           /\ registry[new_id].extruder
                                 = rd.extruder_stack_id_map[f.extruder]
                           /\ CreatedStack(registry[new_id].extruder)

\* C19 witness: read() has returned with the machine strategy "new" for a
\* project whose quality_changes container collided, names the machine and an
\* extruder, both live, and was added under another id with both renamed.
C19_Witness ==
    /\ pc = "done" /\ resolve_strategies["machine"] = "new"
    /\ \E f \in CollidingChangesAsNew :
          /\ f.machine # None /\ f.extruder # None
          /\ f.machine \in DOMAIN registry0 /\ f.extruder \in DOMAIN registry0
          /\ f.id \in DOMAIN id_mapping
          /\ id_mapping[f.id] \in DOMAIN registry
          /\ registry[id_mapping[f.id]].machine # f.machine
          /\ registry[id_mapping[f.id]].extruder # f.extruder

\* The ids of the machine stacks of a registry.
MachineStacks(reg) ==
    {i \in DOMAIN reg : reg[i].cls = "stack" /\ reg[i].type = "machine"}

\* read() has returned with the machine strategy "override" for a project
\* whose machine stack was live when read() started.
MachineOverridden ==
    /\ pc = "done"
    /\ resolve_strategies["machine"] = "override"
    /\ GlobalStackFile(bundle).id \in MachineStacks(registry0)

\* C20. After a read() with the machine strategy "override" and a live
\* machine stack, the machine stack has the id it had, the registry has no
\* machine stack it did not have, and network_authentication_id and
\* network_authentication_key each have the value the live stack had when the
\* stack file lacks the entry.
C20_OverrideKeepsIdentity ==
    MachineOverridden =>
        LET g == GlobalStackFile(bundle) IN
        /\ g.id \in DOMAIN registry /\ registry[g.id].id = g.id
        /\ MachineStacks(registry) = MachineStacks(registry0)
        /\ (registry0[g.id].authId # None /\ g.authId = None)
              => registry[g.id].authId = registry0[g.id].authId
        /\ (registry0[g.id].authKey # None /\ g.authKey = None)
              => registry[g.id].authKey = registry0[g.id].authKey

\* C20 witness: the live stack had an id and a key, the stack file carries an
\* id only; after read() the stack has the file's id and the key it had.
C20_Witness ==
    /\ MachineOverridden
    /\ LET g == GlobalStackFile(bundle) IN
       /\ registry0[g.id].authId # None /\ registry0[g.id].authKey # None
       /\ g.authId # None /\ g.authKey = None
       /\ registry[g.id].authId = g.authId
       /\ registry[g.id].authKey = registry0[g.id].authKey

\* read() has returned with the machine strategy "new" for a project whose
\* machine stack no live container had the id of.
NewMachineImported ==
    /\ pc = "done"
    /\ resolve_strategies["machine"] = "new"
    /\ GlobalStackFile(bundle).id \notin DOMAIN registry0

\* The live instance containers read() deserializes a file over: a material
\* that is not read-only under the material strategy "override", and a
\* quality_changes or definition_changes container under the strategy
\* "override" of its type.
OverriddenInPlace(id) ==
    /\ id \in DOMAIN registry0 /\ registry0[id].cls = "instance"
    /\ \/ /\ \E i \in 1..Len(bundle.mats) : bundle.mats[i].id = id
          /\ ~registry0[id].readOnly
          /\ resolve_strategies["material"] = "override"
       \/ \E i \in 1..Len(bundle.insts) :
             /\ bundle.insts[i].id = id
             /\ bundle.insts[i].type \in {"quality_changes", "definition_changes"}
             /\ bundle.insts[i].type \in DOMAIN resolve_strategies
             /\ resolve_strategies[bundle.insts[i].type] = "override"

\* Exactly one machine stack was added, and every extruder stack file of the
\* project has a stack that names the new machine and carries the position of
\* the file.
OneMachineWithItsExtruders ==
    /\ MachineStacks(registry) \ MachineStacks(registry0) = {rd.global_stack_id_new}
    /\ \A i \in 1..Len(ExtruderStackFiles(bundle)) :
          LET f == ExtruderStackFiles(bundle)[i]
              id == rd.extruder_stack_id_map[f.id]
          IN  /\ CreatedStack(id)
              /\ registry[id].machine = rd.global_stack_id_new
              /\ registry[id].position = f.position

\* C21 as stated: after an import whose machine strategy is "new" because no
\* live container had the machine's id, one machine stack was added, every
\* extruder stack of the project is bound to it at its position, and every
\* container that was live is as it was.
C21_NewMachineNothingMutated ==
    NewMachineImported =>
        /\ OneMachineWithItsExtruders
        /\ \A id \in DOMAIN registry0 :
              id \in DOMAIN registry /\ registry[id] = registry0[id]

\* C21. After such an import one machine stack was added, every extruder
\* stack of the project is bound to it at its position, no live container
\* was removed, and the only live containers that changed are the instance
\* containers whose category was resolved by "override".
C21_NewMachineOnlyOverridesMutate ==
    NewMachineImported =>
        /\ OneMachineWithItsExtruders
        /\ \A id \in DOMAIN registry0 :
              /\ id \in DOMAIN registry
              /\ registry[id] # registry0[id] => OverriddenInPlace(id)

\* C21 witness: such an import of a project with an extruder stack and a
\* quality_changes container whose id was live, added under another id beside
\* the live one.
C21_Witness ==
    /\ NewMachineImported
    /\ ExtruderStackFiles(bundle) # <<>>
    /\ \E i \in 1..Len(bundle.insts) :
          /\ bundle.insts[i].id \in DOMAIN registry0
          /\ registry[bundle.insts[i].id] = registry0[bundle.insts[i].id]
          /\ bundle.insts[i].id \in DOMAIN id_mapping

\* C22. When read() has gone through the machine stack step with a machine
\* strategy that is neither "override" nor "new", it has not returned the
\* nodes, the machine stacks of the registry are the ones it had, unchanged,
\* and the registry holds no container that read() added.
C22_UnsupportedStrategyFails ==
    (/\ pc \in {"rolled_back", "read_extruder_stacks", "read_repair", "read_relink",
               "done"}
     /\ "machine" \in DOMAIN resolve_strategies
     /\ resolve_strategies["machine"] \notin {"override", "new"})
        => /\ pc # "done"
           /\ MachineStacks(registry) = MachineStacks(registry0)
           /\ \A id \in MachineStacks(registry0) : registry[id] = registry0[id]
           /\ DOMAIN registry = DOMAIN registry0

\* The machine stack and the extruder stacks of the import, in the order of
\* [global_stack] + extruder_stacks.
MergedStacks == <<rd.global_stack>> \o rd.extruder_stacks

\* The repair of the quality profiles takes a step.
RepairStep == pc = "read_repair" /\ pc' = "read_relink"

\* The ids of the reserved empty containers.
ReservedEmptyIds == {"empty", "empty_quality", "empty_quality_changes"}

RepairRan == rd # NoLocals /\ (rd.has_not_supported \/ rd.available_quality_types # {})

\* The machine stack step and the extruder stack step are complete: the
\* stacks are in the registry with everything read() added.
StacksLoaded ==
    /\ rd # NoLocals
    /\ FoundStack(registry, rd.global_stack)
    /\ Len(rd.extruder_stacks) >= 1
    /\ \A i \in 1..Len(rd.extruder_stacks) : FoundStack(registry, rd.extruder_stacks[i])
    /\ \A i \in 1..Len(rd.containers_added) : rd.containers_added[i] \in DOMAIN registry

\* C24: the repair runs only after the machine stack step and the extruder
\* stack step have completed without rollback; in a run that rolled back the
\* repair took no step, so it changed no slot, and the mesh reader read no
\* nodes.
C24_RepairAfterStacks ==
    /\ (pc \in {"read_repair", "read_relink", "done"} \/ RepairRan) => StacksLoaded
    /\ pc = "rolled_back" => ~RepairRan /\ rd.nodes = None
    /\ pc = "done" => RepairRan /\ rd.nodes # None

\* The extruder stack step rolled back after the machine stack step was
\* complete.
C24_Witness ==
    /\ pc = "rolled_back"
    /\ rd.global_stack # None
    /\ rd.containers_added # <<>>

\* An id begins another.
IsPrefix(p, id) == Len(p) <= Len(id) /\ SubSeq(id, 1, Len(p)) = p

\* The old ids of a dict that begin an id.
PrefixParents(dict, id) ==
    {p \in {dict[i].old : i \in DOMAIN dict} : IsPrefix(p, id)}

\* The longest of the old ids of a dict that begin an id, None if none does.
LongestPrefixParent(dict, id) ==
    IF PrefixParents(dict, id) = {} THEN None
    ELSE CHOOSE p \in PrefixParents(dict, id) :
            \A q \in PrefixParents(dict, id) : Len(q) <= Len(p)

\* C25: whatever the old ids of the materials that were given new ids, in
\* whatever order they are visited, and whatever material the stack holds, the
\* resolver selects the longest old id that begins the id of the stack's
\* material, and selects none exactly when no old id begins it.
C25_LongestPrefixSelected ==
    pc = "material_returned" =>
        LET id == SlotOf(registry0["es0"], MaterialSlot) IN
        /\ rd.best = LongestPrefixParent(rd.dict, id)
        /\ (rd.best = None) <=> (PrefixParents(rd.dict, id) = {})

\* PLA is visited before PLA Premium and PLA Premium is selected for the
\* material PLA Premium_um3_aa04.
C25_Witness ==
    /\ pc = "material_returned"
    /\ Len(rd.dict) = 2
    /\ rd.dict[1].old = "PLA"
    /\ rd.dict[2].old = "PLA Premium"
    /\ SlotOf(registry0["es0"], MaterialSlot) = "PLA Premium_um3_aa04"
    /\ rd.best = "PLA Premium"

\* The container ids a serialized stack lists: the entries of its
\* [containers] section, or the entries of general/containers that are not
\* empty.
ListedIds(f) ==
    IF f.fmt = "general" THEN SelectSeq(f.containers, LAMBDA c : c # "")
    ELSE f.containers

\* C26: the id list read from a serialized stack that lists exactly 6
\* container ids has 7 entries: "empty" at index 5 and the 6 ids of the stack,
\* in their order, at the indices 0 to 4 and 6 (counted from 1 here: "empty" is
\* the sixth entry).
C26_LegacySlotUpgrade ==
    (pc = "ids_returned" /\ Len(ListedIds(bundle.stacks[1])) = 6) =>
        LET listed == ListedIds(bundle.stacks[1]) IN
        /\ Len(rd.container_ids) = 7
        /\ rd.container_ids[6] = "empty"
        /\ \A i \in 1..5 : rd.container_ids[i] = listed[i]
        /\ rd.container_ids[7] = listed[6]

\* A stack that lists six ids under general/containers, the sixth other than
\* the fifth, was read.
C26_Witness ==
    /\ pc = "ids_returned"
    /\ bundle.stacks[1].fmt = "general"
    /\ Len(ListedIds(bundle.stacks[1])) = 6
    /\ ListedIds(bundle.stacks[1])[5] = "a"
    /\ ListedIds(bundle.stacks[1])[6] = "b"
    /\ Len(rd.container_ids) = 7

\* The write pass is over and the pending containers were just committed.
Committed == pc = "read_global_stack"

\* The live instance containers (materials, user, quality_changes and
\* definition_changes containers) whose data the write pass changed in place.
OverwrittenByWritePass ==
    {id \in DOMAIN registry0 :
        /\ id \in DOMAIN registry
        /\ registry0[id].cls = "instance"
        /\ registry[id] # registry0[id]}

\* C27: after a write pass that succeeded, every container the batch commit
\* added and every live container the pass overwrote in place is marked dirty.
C27_CommitMarksDirty ==
    Committed =>
        /\ \A i \in 1..Len(rd.containers_added) :
              rd.containers_added[i] \in DOMAIN registry0
                  \/ registry[rd.containers_added[i]].dirty
        /\ \A id \in OverwrittenByWritePass : registry[id].dirty

\* C27, without the materials: every container the batch commit added and
\* every live user, quality_changes or definition_changes container the pass
\* overwrote is marked dirty.
C27_CommitMarksDirtyButMaterials ==
    Committed =>
        /\ \A i \in 1..Len(rd.containers_added) :
              rd.containers_added[i] \in DOMAIN registry0
                  \/ registry[rd.containers_added[i]].dirty
        /\ \A id \in OverwrittenByWritePass :
              registry[id].type # "material" => registry[id].dirty

\* Step B of the repair is taken and finds no preferred quality: no stack
\* holds an empty quality, some quality is usable, the quality type of the
\* machine is not among the usable ones, and the machine names no preferred
\* quality or the registry holds none under that id.
NoUsableFallback ==
    /\ RepairStep
    /\ ~HasNotSupported(registry, MergedStacks)
    /\ rd'.available_quality_types # {}
    /\ QualityType(SlotOf(registry[rd.global_stack], QualitySlot))
           \notin rd'.available_quality_types
    /\ \/ rd'.preferred_quality_id = None
       \/ ~FoundQuality(registry, rd'.preferred_quality_id, None)

RemintedMaterials ==
    {old_id \in DOMAIN id_mapping :
        \E i \in 1..Len(rd.material_containers) :
            rd.material_containers[i] = id_mapping[old_id]}

\* The id a stack's material is to have after the substitution: the new id
\* of the longest re-minted old id that begins it followed by the rest of it,
\* if some old id begins it and the registry holds a material under the
\* derived id; else the id it has.
SubstitutedMaterial(id) ==
    LET matching == {p \in RemintedMaterials : IsPrefix(p, id)} IN
    IF matching = {} THEN id
    ELSE LET best == CHOOSE p \in matching : \A q \in matching : Len(q) <= Len(p)
             candidate == id_mapping[best] \o SubSeq(id, Len(best) + 1, Len(id))
         IN  IF candidate \in DOMAIN registry /\ registry[candidate].type = "material"
             THEN candidate ELSE id

\* C29: under the material strategy "new" the material slot of every stack
\* is replaced by the derived id, the new id of the matched old id followed
\* by the unchanged rest of the stack's material id, only if the registry
\* holds a material under exactly that id; when no old id matches or the
\* derived id is absent the slot is left as it is; and read() goes on to its
\* end in every case.
C29_DerivedMaterialSubstituted ==
    [][(pc = "read_relink" /\ Strategy(resolve_strategies, "material") = "new") =>
          /\ pc' = "done"
          /\ \A i \in 1..Len(MergedStacks) :
                SlotOf(registry'[MergedStacks[i]], MaterialSlot)
                   = SubstitutedMaterial(SlotOf(registry[MergedStacks[i]],
                                                MaterialSlot))]_vars

\* The material mat1 was given the id "mat1 #2", and an extruder stack that
\* held mat1_dm_aa holds "mat1 #2_dm_aa" while the machine keeps its empty
\* material.
C29_Witness ==
    /\ pc = "done"
    /\ Mapped(id_mapping, "mat1") = "mat1 #2"
    /\ SlotOf(registry[rd.extruder_stacks[1]], MaterialSlot) = "mat1 #2_dm_aa"
    /\ SlotOf(registry[rd.global_stack], MaterialSlot) = "empty_material"

\* The material files of the project whose id is that of a live material
\* the registry marks read-only.
ReadOnlyMaterialFiles ==
    {i \in 1..Len(bundle.mats) : IsReadOnly(registry0, bundle.mats[i].id)}

\* C30: whatever the material strategy, a material file whose id is that of
\* a read-only live material leaves the live material as it was, gets no new
\* id, and no material is created for it: at every point of read() and after
\* it the materials of the registry that were not live are those of the files
\* that met no live material.
C30_ReadOnlyMaterialUntouched ==
    (pc \in ReadStates \cup EndStates /\ rd # NoLocals) =>
        \A i \in ReadOnlyMaterialFiles :
            /\ bundle.mats[i].id \in DOMAIN registry
            /\ registry[bundle.mats[i].id] = registry0[bundle.mats[i].id]
            /\ bundle.mats[i].id \notin DOMAIN id_mapping
            /\ \A id \in DOMAIN registry \ DOMAIN registry0 :
                  registry[id].type = "material" =>
                     \E j \in 1..Len(bundle.mats) :
                        /\ j \notin ReadOnlyMaterialFiles
                        /\ id \in {bundle.mats[j].id, Mapped(id_mapping, bundle.mats[j].id)}

\* An import under the material strategy "new" ended with a read-only live
\* material under the id of a material file.
C30_Witness ==
    /\ pc = "done"
    /\ ReadOnlyMaterialFiles # {}
    /\ Strategy(resolve_strategies, "material") = "new"

====
